---- MODULE Spec2Model ----
(***************************************************************************)
(* A model of the VedaLang -> TableIR compiler (vedalang/compiler).        *)
(*                                                                         *)
(* Text is modelled as sequences of one-character strings, so formatting   *)
(* (f-strings), parsing (int) and ordering (sorted) are computed and not   *)
(* assumed.  Numbers that pass through the interpolation engine are exact  *)
(* rationals <<n, d>> in lowest terms (the code uses floats).              *)
(***************************************************************************)
EXTENDS Integers, Sequences, FiniteSets, TLC

VARIABLES
    \* ---- _expand_series_to_years (one call) ----
    sparse_values,   \* dict: year key (digit string) -> value
    model_years,     \* list of model years
    interpolation,   \* mode
    dense_values,    \* the returned dict: year -> rational
    xpc,             \* "call" before the call, "done" after it
    \* ---- _compile_trade_links (one call) ----
    trade_links,     \* list of trade link dicts
    commodities,     \* list of commodity dicts (for the unit lookup)
    trade_result,    \* the returned (files, process_rows, topology_rows)
    tpc,             \* "call" before the call, "done" after it
    \* ---- compile_vedalang_to_tableir (one call, then a second run) ----
    source,          \* the caller's source document
    original,        \* the source document as it was before the call
    validate,        \* the validate argument
    config,          \* the table-shape configuration files, as loaded
    pc,              \* where the call stands
    xref,            \* what validate_cross_references returned, if it ran
    tableir,         \* the TableIR built by the lowering, if it ran
    returned,        \* the TableIR returned, if the call returned
    raised,          \* the exception raised, if the call raised
    again,           \* the TableIR built by a second run on the same source
    \* ---- validate_tableir (one call) ----
    vtableir,        \* the TableIR given to the call
    vschemas,        \* the configuration the schemas are loaded from
    verrors,         \* the returned list of errors
    vpc,             \* "call" before the call, "done" after it
    \* ---- run_check (one call) ----
    kmode,           \* "vedalang", "tableir" or "none" (from_vedalang, from_tableir)
    kpc,             \* where the call stands
    kresult,         \* the CheckResult
    kexc,            \* the exception on its way to the except clauses, if any
    kreturncode,     \* proc.returncode, once xl2times has run
    \* ---- run_pipeline (one call) ----
    pkind,           \* input_kind
    pno_solver,      \* the no_solver argument
    pkeep,           \* the keep_workdir argument
    ppc,             \* where the call stands
    presult,         \* the PipelineResult: success, steps (in insertion order), work_dir
    plocals          \* tableir_file, excel_dir, dd_dir: set (TRUE) or None (FALSE)

xvars == <<sparse_values, model_years, interpolation, dense_values, xpc>>

tvars == <<trade_links, commodities, trade_result, tpc>>

cvars == <<source, original, validate, config, pc, xref, tableir, returned,
           raised, again>>

vvars == <<vtableir, vschemas, verrors, vpc>>

kvars == <<kmode, kpc, kresult, kexc, kreturncode>>

pvars == <<pkind, pno_solver, pkeep, ppc, presult, plocals>>

\* The components outside the compiler
ovars == <<vvars, kvars, pvars>>

vars == <<xvars, tvars, cvars, ovars>>

(***************************************************************************)
(* Bounds of the model                                                     *)
(***************************************************************************)
MaxPoints == 3      \* most entries of one sparse year -> value mapping
MaxPeriods == 3     \* most entries of time_periods

(***************************************************************************)
(* Generic helpers: Python's built-ins as the code uses them               *)
(***************************************************************************)
\* An optional value: None, or Some(v)
None == <<>>
Some(v) == <<v>>

Abs(x) == IF x < 0 THEN -x ELSE x

RECURSIVE Gcd(_, _)
Gcd(a, b) == IF b = 0 THEN a ELSE Gcd(b, a % b)

\* The exact quotient n / d (d # 0), in lowest terms with a positive denominator.
Rat(n, d) ==
    LET g == Gcd(Abs(n), Abs(d))
        s == IF d < 0 THEN -1 ELSE 1
    IN  <<(s * n) \div g, (s * d) \div g>>

Num(v) == Rat(v, 1)

RatAdd(a, b) == Rat(a[1] * b[2] + b[1] * a[2], a[2] * b[2])
RatMul(a, b) == Rat(a[1] * b[1], a[2] * b[2])

\* int(c) for one decimal digit
DigitValue(c) ==
    CASE c = "0" -> 0 [] c = "1" -> 1 [] c = "2" -> 2 [] c = "3" -> 3
      [] c = "4" -> 4 [] c = "5" -> 5 [] c = "6" -> 6 [] c = "7" -> 7
      [] c = "8" -> 8 [] c = "9" -> 9

\* int(year_str)
RECURSIVE StrToInt(_)
StrToInt(s) ==
    IF s = <<>> THEN 0
    ELSE StrToInt(SubSeq(s, 1, Len(s) - 1)) * 10 + DigitValue(s[Len(s)])

\* list(d.items()) of a dict: the keys in the dict's own order (any order: every
\* use sorts the list or folds it into a result that does not depend on order)
RECURSIVE Items(_)
Items(d) ==
    IF DOMAIN d = {} THEN <<>>
    ELSE LET k == CHOOSE x \in DOMAIN d : TRUE
         IN  <<<<k, d[k]>>>> \o Items([y \in DOMAIN d \ {k} |-> d[y]])

\* (y, v) tuples compare by year, then by value
PointLeq(p, q) == p[1] < q[1] \/ (p[1] = q[1] /\ p[2] <= q[2])

RECURSIVE InsertPoint(_, _)
InsertPoint(p, s) ==
    IF s = <<>> THEN <<p>>
    ELSE IF PointLeq(p, s[1]) THEN <<p>> \o s
    ELSE <<s[1]>> \o InsertPoint(p, Tail(s))

\* sorted(list of (year, value))
RECURSIVE SortedPoints(_)
SortedPoints(s) ==
    IF s = <<>> THEN <<>> ELSE InsertPoint(s[1], SortedPoints(Tail(s)))

\* d.get(k, default)
Get(d, k, default) == IF k \in DOMAIN d THEN d[k] ELSE default

\* The characters of names, in code-point order
Alphabet ==
    <<"0", "1", "2", "3", "4", "5", "6", "7", "8", "9",
      "A", "B", "C", "D", "E", "F", "G", "H", "I", "J", "K", "L", "M",
      "N", "O", "P", "Q", "R", "S", "T", "U", "V", "W", "X", "Y", "Z", "_">>

\* ord(c)
CharCode(c) == CHOOSE i \in 1..Len(Alphabet) : Alphabet[i] = c

\* s < t for two strings (lexicographic, by code point)
RECURSIVE StrLess(_, _)
StrLess(s, t) ==
    IF t = <<>> THEN FALSE
    ELSE IF s = <<>> THEN TRUE
    ELSE IF s[1] # t[1] THEN CharCode(s[1]) < CharCode(t[1])
    ELSE StrLess(Tail(s), Tail(t))

RECURSIVE InsertName(_, _)
InsertName(n, s) ==
    IF s = <<>> THEN <<n>>
    ELSE IF StrLess(s[1], n) THEN <<s[1]>> \o InsertName(n, Tail(s))
    ELSE <<n>> \o s

\* A variant that keeps the order in which the set happens to be iterated
Sorted_Unsorted(s) == s

\* sorted(iterable of strings)
RECURSIVE Sorted(_)
Sorted(s) == IF s = <<>> THEN <<>> ELSE InsertName(s[1], Sorted(Tail(s)))

\* Iterating a Python set of strings: the order depends on the process's hash
\* seed.  A seed is an arrangement of all strings; a set is iterated in it.
SetIter(S, seed) == SelectSeq(seed, LAMBDA x : x \in S)

\* The elements of a list, as a set
Range(s) == { s[i] : i \in 1..Len(s) }

(***************************************************************************)
(* _compile_trade_links                                                    *)
(***************************************************************************)
\* A string literal, as text
Lit(piece) == <<piece>>

\* link.get("bidirectional", True)
LinkBidirectional(link) == Get(link, "bidirectional", TRUE)

\* A variant that groups by commodity alone
GroupKey_CommodityOnly(link) == <<link.commodity, TRUE>>

\* The key under which a link is grouped
GroupKey(link) == <<link.commodity, LinkBidirectional(link)>>

\* The keys of `grouped`, in insertion order
RECURSIVE GroupKeys(_, _)
GroupKeys(links, keys) ==
    IF links = <<>> THEN keys
    ELSE LET key == GroupKey(links[1])
         IN GroupKeys(Tail(links),
                      IF key \in Range(keys) THEN keys ELSE Append(keys, key))

\* comm_units.get(commodity, "PJ"); a later entry of the same name wins
RECURSIVE CommUnit(_, _)
CommUnit(comms, commodity) ==
    IF comms = <<>> THEN Lit("PJ")
    ELSE LET c == comms[Len(comms)]
         IN IF c.name = commodity THEN Get(c, "unit", Lit("PJ"))
            ELSE CommUnit(SubSeq(comms, 1, Len(comms) - 1), commodity)

\* f"T_{direction_code}_{commodity}_{origin}_{dest}_01"
TradeProcessName(direction_code, commodity, origin, dest) ==
    <<"T", "_">> \o direction_code \o <<"_">> \o commodity \o <<"_">>
        \o origin \o <<"_">> \o dest \o <<"_", "0", "1">>

\* The second declaration row, in the destination region
DestinationDeclaration(bidirectional, decl) ==
    IF bidirectional THEN <<decl>> ELSE <<>>

TradeDeclaration(region, process_name, commodity, origin, dest, unit) ==
    [region |-> region,
     process |-> process_name,
     description |-> Lit("Trade ") \o commodity \o Lit(" from ") \o origin
                         \o Lit(" to ") \o dest,
     sets |-> Lit("IRE"),
     tact |-> unit,
     tcap |-> Lit("")]

\* A variant that emits no efficiency row
EfficiencyRows_Dropped(link, origin, process_name, commodity) == <<>>

\* if efficiency is not None: topology_rows.append({..., "eff": efficiency})
EfficiencyRows(link, origin, process_name, commodity) ==
    IF "efficiency" \in DOMAIN link
    THEN << ("region" :> origin) @@ ("process" :> process_name)
                @@ ("commodity-out" :> commodity)
                @@ ("eff" :> link.efficiency) >>
    ELSE <<>>

\* The body of "for link in outgoing"; acc holds row, process_rows,
\* topology_rows and emitted_processes
TradeLinkStep(acc, link, commodity, bidirectional, origin, comms) ==
    LET dest == link.destination
        direction_code == IF bidirectional THEN <<"B">> ELSE <<"U">>
        process_name == TradeProcessName(direction_code, commodity, origin, dest)
        fresh == process_name \notin acc.emitted
        unit == CommUnit(comms, commodity)
        decls ==
            IF fresh
            THEN <<TradeDeclaration(origin, process_name, commodity, origin, dest, unit)>>
                 \o DestinationDeclaration(
                        bidirectional,
                        TradeDeclaration(dest, process_name, commodity, origin, dest, unit))
            ELSE <<>>
        topo ==
            IF fresh
            THEN << ("region" :> origin) @@ ("process" :> process_name)
                        @@ ("commodity-out" :> commodity),
                    ("region" :> dest) @@ ("process" :> process_name)
                        @@ ("commodity-in" :> commodity) >>
            ELSE <<>>
        effrow == EfficiencyRows(link, origin, process_name, commodity)
    IN [acc EXCEPT
            !.row = (dest :> process_name) @@ acc.row,
            !.process_rows = acc.process_rows \o decls,
            !.topology_rows = acc.topology_rows \o topo \o effrow,
            !.emitted = acc.emitted \cup {process_name}]

RECURSIVE TradeLinkLoop(_, _, _, _, _, _)
TradeLinkLoop(acc, outgoing, commodity, bidirectional, origin, comms) ==
    IF outgoing = <<>> THEN acc
    ELSE TradeLinkLoop(
             TradeLinkStep(acc, outgoing[1], commodity, bidirectional, origin, comms),
             Tail(outgoing), commodity, bidirectional, origin, comms)

\* The body of "for origin in sorted(all_regions)"
TradeOriginStep(acc, origin, links, commodity, bidirectional, comms) ==
    LET outgoing == SelectSeq(links, LAMBDA lnk : lnk.origin = origin)
    IN IF outgoing = <<>> THEN acc
       ELSE LET done == TradeLinkLoop([acc EXCEPT !.row = (commodity :> origin)],
                                      outgoing, commodity, bidirectional, origin, comms)
            IN [done EXCEPT !.rows = Append(acc.rows, done.row)]

RECURSIVE TradeOriginLoop(_, _, _, _, _, _)
TradeOriginLoop(acc, origins, links, commodity, bidirectional, comms) ==
    IF origins = <<>> THEN acc
    ELSE TradeOriginLoop(
             TradeOriginStep(acc, origins[1], links, commodity, bidirectional, comms),
             Tail(origins), links, commodity, bidirectional, comms)

\* The body of "for (commodity, bidirectional), links in grouped.items()"
TradeGroupStep(acc, key, all_links, comms, seed) ==
    LET commodity == key[1]
        bidirectional == key[2]
        links == SelectSeq(all_links, LAMBDA lnk : GroupKey(lnk) = key)
        all_regions == { lnk.origin : lnk \in Range(links) }
                           \cup { lnk.destination : lnk \in Range(links) }
        direction == IF bidirectional THEN Lit("Bi") ELSE Lit("Uni")
        sheet_name == direction \o <<"_">> \o commodity
        done == TradeOriginLoop([acc EXCEPT !.rows = <<>>],
                                Sorted(SetIter(all_regions, seed)),
                                links, commodity, bidirectional, comms)
    IN [done EXCEPT !.sheets =
            Append(acc.sheets,
                   [name |-> sheet_name,
                    tables |-> << [tag |-> "~TRADELINKS", rows |-> done.rows] >>])]

RECURSIVE TradeGroupLoop(_, _, _, _, _)
TradeGroupLoop(acc, keys, all_links, comms, seed) ==
    IF keys = <<>> THEN acc
    ELSE TradeGroupLoop(TradeGroupStep(acc, keys[1], all_links, comms, seed),
                        Tail(keys), all_links, comms, seed)

\* _compile_trade_links(trade_links, commodities) under a hash seed
CompileTradeLinks(links, comms, seed) ==
    IF links = <<>>
    THEN [files |-> <<>>, process_rows |-> <<>>, topology_rows |-> <<>>]
    ELSE LET start == [row |-> <<>>, rows |-> <<>>, sheets |-> <<>>,
                       process_rows |-> <<>>, topology_rows |-> <<>>,
                       emitted |-> {}]
             done == TradeGroupLoop(start, GroupKeys(links, <<>>), links, comms, seed)
         IN [files |-> << [path |-> Lit("SuppXLS/Trades/")
                                         \o Lit("ScenTrade__Trade_Links.xlsx"),
                           sheets |-> done.sheets] >>,
             process_rows |-> done.process_rows,
             topology_rows |-> done.topology_rows]

(***************************************************************************)
(* validate_cross_references                                               *)
(***************************************************************************)
\* The lists of a list of lists, one after the other
RECURSIVE Concat(_)
Concat(lists) ==
    IF lists = <<>> THEN <<>> ELSE lists[1] \o Concat(Tail(lists))

\* str(i) for i >= 0
RECURSIVE IntToStr(_)
IntToStr(i) ==
    IF i < 10 THEN <<Alphabet[i + 1]>>
    ELSE IntToStr(i \div 10) \o <<Alphabet[(i % 10) + 1]>>

\* del d[k]
Without(d, k) == [x \in DOMAIN d \ {k} |-> d[x]]

\* A variant that works on the argument itself instead of a copy
ArgumentAfterCall_NoCopy(process, result) == result

\* The caller's dict after _normalize_process_flows(process): the function
\* changes only result, which process.copy() made a separate dict
ArgumentAfterCall(process, result) == process

\* A variant that leaves the shorthand as it is
NormalizeProcessFlows_Unchanged(process) == [result |-> process, argument |-> process]

\* _normalize_process_flows(process): the returned dict and the argument after
\* the call
NormalizeProcessFlows(process) ==
    LET r1 == IF "input" \in DOMAIN process /\ "inputs" \notin DOMAIN process
              THEN ("inputs" :> << [commodity |-> process["input"]] >>)
                       @@ Without(process, "input")
              ELSE process
        r2 == IF "output" \in DOMAIN r1 /\ "outputs" \notin DOMAIN r1
              THEN ("outputs" :> << [commodity |-> r1["output"]] >>)
                       @@ Without(r1, "output")
              ELSE r1
    IN [result |-> r2, argument |-> ArgumentAfterCall(process, r2)]

\* The processes of the model after each one was passed to
\* _normalize_process_flows
ProcessesAfterCalls(processes) ==
    [i \in 1..Len(processes) |-> NormalizeProcessFlows(processes[i]).argument]

\* get_close_matches(name, candidates, n=1, cutoff=0.6) as a hint: a name that
\* shares no character with any candidate has similarity 0, below the cutoff
Hint(name, candidates) ==
    IF \A c \in candidates : Range(c) \cap Range(name) = {}
    THEN Lit("")
    ELSE Lit(" Did you mean '") \o (CHOOSE c \in candidates :
                                       Range(c) \cap Range(name) # {}) \o Lit("'?")

ENERGY_UNITS == {Lit("PJ"), Lit("TJ"), Lit("GJ"), Lit("MWh"), Lit("GWh"),
                 Lit("TWh"), Lit("MTOE"), Lit("KTOE")}

POWER_UNITS == {Lit("GW"), Lit("MW"), Lit("kW"), Lit("TW")}

\* bool(text): the empty string is false
Truthy(text) == text # <<>> /\ text # Lit("")

\* A variant that stops at the first error
Errors_FailFast(lists) ==
    LET all == Concat(lists) IN IF all = <<>> THEN <<>> ELSE <<all[1]>>

\* errors: everything the checks appended, in the order of the checks
Errors(lists) == Concat(lists)

\* The errors of one process (inputs, then outputs)
ProcessReferenceErrors(raw_process, commodity_names) ==
    LET process == NormalizeProcessFlows(raw_process).result
        FlowErrors(key) ==
            LET flows == Get(process, key, <<>>)
            IN Concat([i \in 1..Len(flows) |->
                   IF flows[i].commodity \notin commodity_names
                   THEN << Lit("Unknown commodity '") \o flows[i].commodity
                             \o Lit("' in process '") \o process.name
                             \o Lit("' ") \o Lit(key) \o Lit("[") \o IntToStr(i - 1)
                             \o Lit("].") \o Hint(flows[i].commodity, commodity_names) >>
                   ELSE <<>>])
    IN FlowErrors("inputs") \o FlowErrors("outputs")

\* A variant that accepts every unit
ProcessUnitWarnings_None(raw_process) == <<>>

\* The warnings of one process (activity_unit, then capacity_unit)
ProcessUnitWarnings(raw_process) ==
    LET process == NormalizeProcessFlows(raw_process).result
        UnitWarning(key, units, kind) ==
            IF key \in DOMAIN process /\ Truthy(process[key])
               /\ process[key] \notin units
            THEN << Lit("Process '") \o process.name \o Lit("' has ") \o Lit(key)
                      \o Lit(" '") \o process[key]
                      \o Lit("' which is not a recognized ") \o Lit(kind)
                      \o Lit(" unit.") >>
            ELSE <<>>
    IN UnitWarning("activity_unit", ENERGY_UNITS, "energy")
           \o UnitWarning("capacity_unit", POWER_UNITS, "power")

\* The errors of one constraint (commodity, then processes)
ConstraintReferenceErrors(constraint, commodity_names, processes) ==
    LET procs == Get(constraint, "processes", <<>>)
    IN (IF /\ "commodity" \in DOMAIN constraint
           /\ Truthy(constraint.commodity)
           /\ constraint.commodity \notin commodity_names
        THEN << Lit("Unknown commodity '") \o constraint.commodity
                  \o Lit("' in constraint '") \o constraint.name \o Lit("'.")
                  \o Hint(constraint.commodity, commodity_names) >>
        ELSE <<>>)
       \o Concat([i \in 1..Len(procs) |->
              IF procs[i] \notin processes
              THEN << Lit("Unknown process '") \o procs[i]
                        \o Lit("' in constraint '") \o constraint.name \o Lit("'.")
                        \o Hint(procs[i], processes) >>
              ELSE <<>>])

\* The errors of trade_links[i] (origin, destination, commodity)
TradeLinkReferenceErrors(link, i, commodity_names, regions) ==
    LET where == Lit("' in trade_links[") \o IntToStr(i) \o Lit("]")
    IN (IF link.origin \notin regions
        THEN << Lit("Unknown region '") \o link.origin \o where
                  \o Lit(" origin.") \o Hint(link.origin, regions) >>
        ELSE <<>>)
       \o (IF link.destination \notin regions
           THEN << Lit("Unknown region '") \o link.destination \o where
                     \o Lit(" destination.") \o Hint(link.destination, regions) >>
           ELSE <<>>)
       \o (IF link.commodity \notin commodity_names
           THEN << Lit("Unknown commodity '") \o link.commodity \o where
                     \o Lit(".") \o Hint(link.commodity, commodity_names) >>
           ELSE <<>>)

\* commodities[name]: a later entry of the same name wins
CommodityInfo(comms, name) ==
    comms[CHOOSE i \in 1..Len(comms) :
              /\ comms[i].name = name
              /\ \A j \in (i + 1)..Len(comms) : comms[j].name # name]

\* The errors of one scenario (commodity, or else its type)
ScenarioReferenceErrors(scenario, comms, commodity_names) ==
    IF "commodity" \notin DOMAIN scenario \/ ~Truthy(scenario.commodity)
    THEN <<>>
    ELSE IF scenario.commodity \notin commodity_names
    THEN << Lit("Unknown commodity '") \o scenario.commodity
              \o Lit("' in scenario '") \o scenario.name \o Lit("'.")
              \o Hint(scenario.commodity, commodity_names) >>
    ELSE LET comm_type == Get(CommodityInfo(comms, scenario.commodity),
                              "type", "energy")
             scenario_type == Get(scenario, "type", "")
         IN IF scenario_type = "demand_projection" /\ comm_type # "demand"
            THEN << Lit("demand_projection scenario '") \o scenario.name
                      \o Lit("' targets commodity '") \o scenario.commodity
                      \o Lit("' (type '") \o Lit(comm_type)
                      \o Lit("'), expected 'demand'") >>
            ELSE IF scenario_type = "commodity_price" /\ comm_type = "demand"
            THEN << Lit("commodity_price scenario '") \o scenario.name
                      \o Lit("' targets commodity '") \o scenario.commodity
                      \o Lit("' (type 'demand'), expected non-demand type") >>
            ELSE <<>>

\* validate_cross_references(model): (errors, warnings)
ValidateCrossReferences(model) ==
    LET comms == Get(model, "commodities", <<>>)
        commodity_names == { comms[i].name : i \in 1..Len(comms) }
        procs == Get(model, "processes", <<>>)
        processes == { procs[i].name : i \in 1..Len(procs) }
        regions == Range(Get(model, "regions", <<>>))
        cons == Get(model, "constraints", <<>>)
        links == Get(model, "trade_links", <<>>)
        scens == Get(model, "scenarios", <<>>)
    IN [errors |->
            Errors(
                [i \in 1..Len(procs) |->
                    ProcessReferenceErrors(procs[i], commodity_names)]
                \o [i \in 1..Len(cons) |->
                    ConstraintReferenceErrors(cons[i], commodity_names, processes)]
                \o [i \in 1..Len(links) |->
                    TradeLinkReferenceErrors(links[i], i - 1, commodity_names, regions)]
                \o [i \in 1..Len(scens) |->
                    ScenarioReferenceErrors(scens[i], comms, commodity_names)]),
        warnings |->
            Concat([i \in 1..Len(procs) |-> ProcessUnitWarnings(procs[i])])]

(***************************************************************************)
(* Lowering: commodities, processes, topology                              *)
(***************************************************************************)
\* sep.join(list)
RECURSIVE Join(_, _)
Join(sep, list) ==
    IF list = <<>> THEN Lit("")
    ELSE IF Len(list) = 1 THEN list[1]
    ELSE list[1] \o sep \o Join(sep, Tail(list))

\* text.upper()
Upper(text) ==
    [i \in DOMAIN text |->
        CASE text[i] = "m" -> "M" [] text[i] = "u" -> "U" [] text[i] = "p" -> "P"
          [] text[i] = "l" -> "L" [] text[i] = "o" -> "O" [] text[i] = "f" -> "F"
          [] text[i] = "x" -> "X" [] OTHER -> text[i]]

\* A scalar attribute value and a time-varying one ({values: ..., interpolation: ...})
Scalar(v) == [scalar |-> v]

IsTimeVarying(value) == "values" \in DOMAIN value

ATTR_TO_COLUMN ==
    [efficiency |-> "eff", invcost |-> "ncap_cost", fixom |-> "ncap_fom",
     varom |-> "act_cost", life |-> "ncap_tlife", cost |-> "ire_price",
     availability_factor |-> "ncap_af"]

INTERPOLATION_CODES ==
    [none |-> -1, interp_only |-> 1, interp_extrap_eps |-> 2, interp_extrap |-> 3,
     interp_extrap_back |-> 4, interp_extrap_forward |-> 5]

\* The keys of a dict of year strings, as sorted(d.items()) orders them
SortedKeys(d) == Sorted([i \in 1..Len(Items(d)) |-> Items(d)[i][1]])

\* A variant whose rows leave out the output commodity of the base row
ExpandTimeVaryingAttr_Unanchored(attr_name, value, base_row) ==
    LET column == Get(ATTR_TO_COLUMN, attr_name, attr_name)
        bare_row == Without(base_row, "commodity-out")
    IN IF ~IsTimeVarying(value)
       THEN << (column :> value.scalar) @@ bare_row >>
       ELSE LET values == value.values
                keys == SortedKeys(values)
            IN << (column :> 3) @@ ("year" :> 0) @@ bare_row >>
               \o [i \in 1..Len(keys) |->
                      (column :> values[keys[i]])
                          @@ ("year" :> StrToInt(keys[i])) @@ bare_row]

\* _expand_time_varying_attr(attr_name, value, base_row)
ExpandTimeVaryingAttr(attr_name, value, base_row) ==
    LET column == Get(ATTR_TO_COLUMN, attr_name, attr_name)
    IN IF ~IsTimeVarying(value)
       THEN << (column :> value.scalar) @@ base_row >>
       ELSE LET values == value.values
                mode == Get(value, "interpolation", "interp_extrap")
                interp_code == Get(INTERPOLATION_CODES, mode, 3)
                keys == SortedKeys(values)
            IN (IF interp_code # -1
                THEN << (column :> interp_code) @@ ("year" :> 0) @@ base_row >>
                ELSE <<>>)
               \o [i \in 1..Len(keys) |->
                      (column :> values[keys[i]])
                          @@ ("year" :> StrToInt(keys[i])) @@ base_row]

\* The attributes the topology loop reads from a process
CostAttributes == <<"invcost", "fixom", "varom", "life", "cost">>

\* A variant that gives every limit the type UP
LimtypeMapping_AllUp ==
    [up |-> <<"U", "P">>, lo |-> <<"U", "P">>, fx |-> <<"U", "P">>]

\* limtype_mapping of _collect_bound_params
LimtypeMapping ==
    [up |-> <<"U", "P">>, lo |-> <<"L", "O">>, fx |-> <<"F", "X">>]

\* _collect_bound_params(process); a bound spec lists its (limit, value) items
CollectBoundParams(process) ==
    LET bound_mapping == << <<"activity_bound", "act_bnd">>,
                            <<"cap_bound", "cap_bnd">>,
                            <<"ncap_bound", "ncap_bnd">> >>
        limtype_mapping == LimtypeMapping
        Params(field, column) ==
            LET bound_spec == Get(process, field, <<>>)
                known == SelectSeq(bound_spec,
                                   LAMBDA item : item[1] \in DOMAIN limtype_mapping)
            IN [i \in 1..Len(known) |->
                   ("limtype" :> limtype_mapping[known[i][1]])
                       @@ (column :> known[i][2])]
    IN Concat([i \in 1..Len(bound_mapping) |->
                  Params(bound_mapping[i][1], bound_mapping[i][2])])

\* The ~FI_T rows of one (normalised) process: the body of the topology loop
ProcessTopologyRows(process, default_region) ==
    LET inputs == Get(process, "inputs", <<>>)
        outputs == Get(process, "outputs", <<>>)
        declared == SelectSeq(CostAttributes, LAMBDA a : a \in DOMAIN process)
        scalars == SelectSeq(declared, LAMBDA a : ~IsTimeVarying(process[a]))
        cost_params ==
            [c \in { ATTR_TO_COLUMN[scalars[i]] : i \in 1..Len(scalars) } |->
                process[CHOOSE a \in Range(scalars) : ATTR_TO_COLUMN[a] = c].scalar]
        base == ("region" :> default_region) @@ ("process" :> process.name)
        Share(flow, column) ==
            IF "share" \in DOMAIN flow THEN column :> flow.share ELSE <<>>
        has_eff == "efficiency" \in DOMAIN process
        merged == ~has_eff /\ DOMAIN cost_params # {} /\ outputs # <<>>
        input_rows ==
            [i \in 1..Len(inputs) |->
                Share(inputs[i], "share-i")
                    @@ ("commodity-in" :> inputs[i].commodity) @@ base]
        output_rows ==
            [i \in 1..Len(outputs) |->
                (IF i = 1 /\ merged THEN cost_params ELSE <<>>)
                    @@ Share(outputs[i], "share-o")
                    @@ ("commodity-out" :> outputs[i].commodity) @@ base]
        left_params == IF merged THEN <<>> ELSE cost_params
        bound_params == CollectBoundParams(process)
        eff_varies == has_eff /\ IsTimeVarying(process.efficiency)
        eff_row == has_eff /\ (~eff_varies \/ DOMAIN left_params # {})
        popped == eff_row /\ bound_params # <<>>
        eff_rows ==
            IF eff_row
            THEN << (IF popped THEN bound_params[1] ELSE <<>>)
                        @@ left_params
                        @@ (IF eff_varies THEN <<>>
                            ELSE "eff" :> process.efficiency.scalar)
                        @@ base >>
            ELSE <<>>
        remaining == IF popped THEN Tail(bound_params) ELSE bound_params
        anchored ==
            IF outputs # <<>> /\ Truthy(outputs[1].commodity)
            THEN ("commodity-out" :> outputs[1].commodity) @@ base
            ELSE base
        bound_rows == [i \in 1..Len(remaining) |-> remaining[i] @@ anchored]
        time_varying ==
            SelectSeq(declared, LAMBDA a : IsTimeVarying(process[a]))
                \o (IF eff_varies THEN <<"efficiency">> ELSE <<>>)
    IN input_rows \o output_rows \o eff_rows \o bound_rows
           \o Concat([i \in 1..Len(time_varying) |->
                  ExpandTimeVaryingAttr(time_varying[i],
                                        process[time_varying[i]], anchored)])

(***************************************************************************)
(* _get_model_years                                                        *)
(***************************************************************************)
\* model.get("start_year", 2020)
StartYear == 2020

RECURSIVE ModelYearsFrom(_, _)
ModelYearsFrom(y, time_periods) ==
    IF time_periods = <<>> THEN <<>>
    ELSE <<y>> \o ModelYearsFrom(y + time_periods[1], Tail(time_periods))

GetModelYears(start_year, time_periods) == ModelYearsFrom(start_year, time_periods)

(***************************************************************************)
(* _expand_series_to_years                                                 *)
(***************************************************************************)
\* points = sorted([(int(y), v) for y, v in sparse_values.items()])
PointsOf(sparse) ==
    LET items == Items(sparse)
    IN  SortedPoints([i \in 1..Len(items) |-> <<StrToInt(items[i][1]), items[i][2]>>])

ExtrapBackward(mode) == mode \in {"interp_extrap", "interp_extrap_back"}

\* A variant that forgets the eps mode
ExtrapForward_NoEps(mode) == mode \in {"interp_extrap", "interp_extrap_forward"}

ExtrapForward(mode) ==
    mode \in {"interp_extrap", "interp_extrap_forward", "interp_extrap_eps"}

DoInterpolate(mode) == mode # "none"

\* exact = next((v for y, v in points if y == ym), None)
ExactMatch(points, ym) ==
    LET hits == {i \in 1..Len(points) : points[i][1] = ym}
    IN  IF hits = {} THEN None
        ELSE Some(points[CHOOSE i \in hits : \A j \in hits : i <= j][2])

\* before = [(y, v) for y, v in points if y < ym]
PointsBefore(points, ym) == SelectSeq(points, LAMBDA p : p[1] < ym)

\* after = [(y, v) for y, v in points if y > ym]
PointsAfter(points, ym) == SelectSeq(points, LAMBDA p : p[1] > ym)

\* A variant that takes the first point below instead of the nearest
LowerNeighbour_First(before) == before[1]

\* y0, v0 = before[-1]
LowerNeighbour(before) == before[Len(before)]

\* y1, v1 = after[0]
UpperNeighbour(after) == after[1]

\* ratio = (ym - y0) / (y1 - y0); v0 + (v1 - v0) * ratio
Interpolate(p0, p1, ym) ==
    LET ratio == Rat(ym - p0[1], p1[1] - p0[1])
    IN  RatAdd(Num(p0[2]), RatMul(Num(p1[2] - p0[2]), ratio))

\* One turn of "for ym in model_years": the result dict after it.
ExpandOneYear(result, points, ym, mode) ==
    LET exact  == ExactMatch(points, ym)
        before == PointsBefore(points, ym)
        after  == PointsAfter(points, ym)
    IN  IF exact # None THEN (ym :> Num(exact[1])) @@ result
        ELSE IF ~DoInterpolate(mode) THEN result
        ELSE IF before = <<>> THEN
            IF ExtrapBackward(mode) THEN (ym :> Num(points[1][2])) @@ result
            ELSE result
        ELSE IF after = <<>> THEN
            IF ExtrapForward(mode) THEN (ym :> Num(points[Len(points)][2])) @@ result
            ELSE result
        ELSE (ym :> Interpolate(LowerNeighbour(before), UpperNeighbour(after), ym))
                 @@ result

RECURSIVE ExpandLoop(_, _, _, _)
ExpandLoop(result, points, years, mode) ==
    IF years = <<>> THEN result
    ELSE ExpandLoop(ExpandOneYear(result, points, years[1], mode),
                    points, Tail(years), mode)

EmptyDict == [k \in {} |-> None]

ExpandSeriesToYears(sparse, years, mode) ==
    LET points == PointsOf(sparse)
    IN  IF points = <<>> THEN EmptyDict
        ELSE ExpandLoop(EmptyDict, points, years, mode)

(***************************************************************************)
(* Lowering: scenarios, demand projections, constraints, the TableIR       *)
(***************************************************************************)
\* _compile_scenario(scenario, region, model_years)
CompileScenario(scenario, region, years) ==
    IF Get(scenario, "type", "") = "commodity_price"
    THEN LET sparse == Get(scenario, "values", EmptyDict)
             keys == SortedKeys(sparse)
         IN [i \in 1..Len(keys) |->
                [region |-> region, cset_cn |-> scenario.commodity,
                 year |-> StrToInt(keys[i]), com_cstnet |-> sparse[keys[i]]]]
    ELSE <<>>

\* A variant that keeps the declared years as they are
DenseRows_Sparse(sparse, years, mode) ==
    [i \in 1..Len(PointsOf(sparse)) |->
        <<PointsOf(sparse)[i][1], Num(PointsOf(sparse)[i][2])>>]

\* The rows of one trajectory expanded to the model years, in year order:
\* for year in sorted(dense_values.keys())
DenseRows(sparse, years, mode) ==
    SortedPoints(Items(ExpandSeriesToYears(sparse, years, mode)))

\* _compile_demand_projections(scenarios, region, model_years)
CompileDemandProjections(scenarios, region, years) ==
    LET projections ==
            SelectSeq(scenarios,
                      LAMBDA sc : Get(sc, "type", "") = "demand_projection")
        Rows(projection) ==
            LET dense == DenseRows(Get(projection, "values", EmptyDict), years,
                                   projection.interpolation)
            IN [j \in 1..Len(dense) |->
                   [region |-> region, commodity |-> projection.commodity,
                    year |-> dense[j][1], com_proj |-> dense[j][2]]]
    IN Concat([i \in 1..Len(projections) |-> Rows(projections[i])])

\* _compile_emission_cap(uc_name, commodity, constraint, region, model_years, limtype)
CompileEmissionCap(uc_name, commodity, constraint, region, years, limtype) ==
    LET description == Lit("Emission cap on ") \o commodity
        dense ==
            IF "years" \in DOMAIN constraint
            THEN DenseRows(constraint.years, years,
                           Get(constraint, "interpolation", "interp_extrap"))
            ELSE IF "limit" \in DOMAIN constraint
            THEN [i \in 1..Len(years) |-> <<years[i], Num(constraint.limit)>>]
            ELSE <<>>
    IN [i \in 1..Len(dense) |->
           [uc_n |-> uc_name, description |-> description, region |-> region,
            year |-> dense[i][1], commodity |-> commodity, side |-> "LHS",
            uc_comprd |-> 1]]
       \o [i \in 1..Len(dense) |->
           [uc_n |-> uc_name, description |-> description, region |-> region,
            year |-> dense[i][1], limtype |-> limtype, uc_rhsrt |-> dense[i][2]]]

\* A variant that does not negate the share
ShareCoefficient_Unsigned(share) == share

\* "uc_comprd": -share
ShareCoefficient(share) == -share

\* A variant that never adds the suffix
ShareName_Unsuffixed(uc_name, suffix, other_given) == uc_name

\* uc_name + "_LO" if maximum_share is not None else uc_name (and likewise "_UP")
ShareName(uc_name, suffix, other_given) ==
    IF other_given THEN uc_name \o suffix ELSE uc_name

\* _compile_share_constraint(...); a share is given in hundredths
CompileShareConstraint(uc_name, commodity, processes, share, limtype, region, years) ==
    LET bound_type == IF limtype = <<"L", "O">> THEN "minimum" ELSE "maximum"
        description == Lit("Activity share (") \o Lit(bound_type) \o Lit(" ")
                           \o IntToStr(share) \o Lit("%) on ") \o commodity
        head == [uc_n |-> uc_name, description |-> description, region |-> region]
    IN Concat([y \in 1..Len(years) |->
           [i \in 1..Len(processes) |->
               head @@ [year |-> years[y], process |-> processes[i],
                        side |-> "LHS", uc_act |-> 1]]
           \o << head @@ [year |-> years[y], commodity |-> commodity,
                          side |-> "LHS", uc_comprd |-> ShareCoefficient(share)],
                 head @@ [year |-> years[y], limtype |-> limtype,
                          uc_rhsrt |-> Num(0)] >>])

\* _compile_activity_share(uc_name, commodity, constraint, region, model_years)
CompileActivityShare(uc_name, commodity, constraint, region, years) ==
    LET processes == Get(constraint, "processes", <<>>)
        has_min == "minimum_share" \in DOMAIN constraint
        has_max == "maximum_share" \in DOMAIN constraint
    IN IF processes = <<>> THEN <<>>
       ELSE (IF has_min
             THEN CompileShareConstraint(
                      ShareName(uc_name, <<"_", "L", "O">>, has_max),
                      commodity, processes, constraint.minimum_share,
                      <<"L", "O">>, region, years)
             ELSE <<>>)
            \o (IF has_max
                THEN CompileShareConstraint(
                         ShareName(uc_name, <<"_", "U", "P">>, has_min),
                         commodity, processes, constraint.maximum_share,
                         <<"U", "P">>, region, years)
                ELSE <<>>)

\* _compile_constraints(constraints, region, model_years)
CompileConstraints(constraints, region, years) ==
    LET Rows(constraint) ==
            LET commodity == Get(constraint, "commodity", Lit("None"))
                limtype == Upper(Get(constraint, "limtype", <<"u", "p">>))
            IN IF constraint.type = "emission_cap"
               THEN CompileEmissionCap(constraint.name, commodity, constraint,
                                       region, years, limtype)
               ELSE IF constraint.type = "activity_share"
               THEN CompileActivityShare(constraint.name, commodity, constraint,
                                         region, years)
               ELSE <<>>
        uc_rows == Concat([i \in 1..Len(constraints) |-> Rows(constraints[i])])
    IN IF uc_rows = <<>> THEN <<>>
       ELSE << [path |-> Lit("SuppXLS/Scen_UC_Constraints.xlsx"),
                sheets |-> << [name |-> Lit("UC_Constraints"),
                               tables |-> << [tag |-> "~UC_T",
                                              uc_sets |-> [R_E |-> "AllRegions",
                                                           T_E |-> ""],
                                              rows |-> uc_rows] >>] >>] >>

\* A variant that pairs the levels position by position instead of taking
\* their product
GenerateLeafTimeslices_Zip(seasons, weeklies, daynites) ==
    LET lens == {Len(seasons), Len(weeklies), Len(daynites)}
        n == CHOOSE m \in lens : \A l \in lens : l <= m
        At(list, i) == IF i <= Len(list) THEN list[i] ELSE <<>>
    IN [i \in 1..n |-> At(seasons, i) \o At(weeklies, i) \o At(daynites, i)]

\* _generate_leaf_timeslices: s + w + d over itertools.product(s_list, w_list,
\* d_list), an empty level standing as [""]; empty leaves are left out
GenerateLeafTimeslices(seasons, weeklies, daynites) ==
    LET s_list == IF seasons # <<>> THEN seasons ELSE << <<>> >>
        w_list == IF weeklies # <<>> THEN weeklies ELSE << <<>> >>
        d_list == IF daynites # <<>> THEN daynites ELSE << <<>> >>
    IN Concat([i \in 1..Len(s_list) |->
           Concat([j \in 1..Len(w_list) |->
               Concat([k \in 1..Len(d_list) |->
                   LET leaf == s_list[i] \o w_list[j] \o d_list[k]
                   IN IF leaf # <<>> THEN <<leaf>> ELSE <<>>])])])

\* _compile_timeslices(timeslices, regions): the ~TIMESLICES rows and the YRFR
\* rows; fractions is the dict in its own (insertion) order, a list of
\* <<timeslice, fraction>>
CompileTimeslices(timeslices) ==
    LET Codes(level) == [i \in 1..Len(Get(timeslices, level, <<>>)) |->
                            timeslices[level][i].code]
        season_codes == Codes("season")
        weekly_codes == Codes("weekly")
        daynite_codes == Codes("daynite")
        leaf_timeslices ==
            GenerateLeafTimeslices(season_codes, weekly_codes, daynite_codes)
        fractions == Get(timeslices, "fractions", <<>>)
    IN [timeslice_rows |->
            [i \in 1..Len(season_codes) |->
                [season |-> season_codes[i], weekly |-> <<>>, daynite |-> <<>>]]
            \o [i \in 1..Len(weekly_codes) |->
                [season |-> <<>>, weekly |-> weekly_codes[i], daynite |-> <<>>]]
            \o [i \in 1..Len(leaf_timeslices) |->
                [season |-> <<>>, weekly |-> <<>>, daynite |-> leaf_timeslices[i]]],
        yrfr_rows |->
            [i \in 1..Len(fractions) |->
                [timeslice |-> fractions[i][1], attribute |-> Lit("YRFR"),
                 allregions |-> fractions[i][2]]]]

\* mapping.get(ctype, "NRG") of _commodity_type_to_csets
CommodityTypeToCsets(ctype) ==
    Get([energy |-> "NRG", material |-> "MAT", emission |-> "ENV",
         demand |-> "DEM"], ctype, "NRG")

\* A variant that never reads the declared unit
CommodityUnit_DefaultOnly(commodity, comm_type) ==
    Lit(Get([energy |-> "PJ", demand |-> "PJ", emission |-> "Mt",
             material |-> "Mt"], comm_type, "PJ"))

\* commodity.get("unit") or _get_default_unit(comm_type)
CommodityUnit(commodity, comm_type) ==
    IF "unit" \in DOMAIN commodity /\ Truthy(commodity.unit)
    THEN commodity.unit
    ELSE Lit(Get([energy |-> "PJ", demand |-> "PJ", emission |-> "Mt",
                  material |-> "Mt"], comm_type, "PJ"))

\* The lowering part of compile_vedalang_to_tableir: the TableIR built from
\* the model, and the model's processes after the calls that received them
LowerModel(model, seed) ==
    LET regions == Get(model, "regions", <<<<"R", "E", "G", "1">>>>)
        default_region == Join(<<",">>, regions)
        comms == Get(model, "commodities", <<>>)
        comm_rows ==
            [i \in 1..Len(comms) |->
                LET comm_type == Get(comms[i], "type", "energy")
                IN [region |-> default_region,
                    csets |-> CommodityTypeToCsets(comm_type),
                    commodity |-> comms[i].name,
                    unit |-> CommodityUnit(comms[i], comm_type)]]
        raw1 == Get(model, "processes", <<>>)
        raw2 == ProcessesAfterCalls(raw1)
        raw3 == ProcessesAfterCalls(raw2)
        process_rows ==
            [i \in 1..Len(raw1) |->
                LET process == NormalizeProcessFlows(raw1[i]).result
                IN [region |-> default_region,
                    process |-> process.name,
                    description |-> Get(process, "description", Lit("")),
                    sets |-> Join(<<",">>, Get(process, "sets", <<>>)),
                    tact |-> Get(process, "activity_unit", Lit("PJ")),
                    tcap |-> Get(process, "capacity_unit", Lit("GW")),
                    primarycg |-> process.primary_commodity_group]]
        topology_rows ==
            Concat([i \in 1..Len(raw2) |->
                ProcessTopologyRows(NormalizeProcessFlows(raw2[i]).result,
                                    default_region)])
        model_name == Get(model, "name", Lit("Model"))
        bookname == Upper(model_name)
        time_periods == Get(model, "time_periods", <<10, 10, 10, 10>>)
        years == GetModelYears(Get(model, "start_year", StartYear), time_periods)
        scenarios == Get(model, "scenarios", <<>>)
        compiled == [i \in 1..Len(scenarios) |->
                        CompileScenario(scenarios[i], default_region, years)]
        scenario_files ==
            Concat([i \in 1..Len(scenarios) |->
                IF compiled[i] = <<>> THEN <<>>
                ELSE << [path |-> Lit("SuppXLS/Scen_") \o scenarios[i].name
                                      \o Lit(".xlsx"),
                         sheets |-> << [name |-> Lit("Scenario"),
                                        tables |-> << [tag |-> "~TFM_DINS-AT",
                                                       rows |-> compiled[i]] >>] >>] >>])
        trade == CompileTradeLinks(Get(model, "trade_links", <<>>), comms, seed)
        slices == IF "timeslices" \in DOMAIN model
                  THEN CompileTimeslices(model.timeslices)
                  ELSE [timeslice_rows |-> <<>>, yrfr_rows |-> <<>>]
        syssets_tables ==
            << [tag |-> "~BOOKREGIONS_MAP",
                rows |-> [i \in 1..Len(regions) |->
                             [bookname |-> bookname, region |-> regions[i]]]],
               [tag |-> "~STARTYEAR",
                rows |-> << [value |-> Get(model, "start_year", StartYear)] >>],
               [tag |-> "~ACTIVEPDEF", rows |-> << [value |-> Lit("P")] >>],
               [tag |-> "~TIMEPERIODS",
                rows |-> [i \in 1..Len(time_periods) |-> [p |-> time_periods[i]]]],
               [tag |-> "~CURRENCIES", rows |-> << [currency |-> Lit("USD")] >>] >>
            \o (IF slices.timeslice_rows # <<>>
                THEN << [tag |-> "~TIMESLICES", rows |-> slices.timeslice_rows] >>
                ELSE <<>>)
    IN [tableir |->
            [files |->
                << [path |-> Lit("SysSettings.xlsx"),
                    sheets |-> << [name |-> Lit("SysSets"), tables |-> syssets_tables],
                                  [name |-> Lit("Commodities"),
                                   tables |-> << [tag |-> "~FI_COMM",
                                                  rows |-> comm_rows] >>] >>
                              \o (IF slices.yrfr_rows # <<>>
                                  THEN << [name |-> Lit("constants"),
                                           tables |-> << [tag |-> "~TFM_INS",
                                                          rows |-> slices.yrfr_rows] >>] >>
                                  ELSE <<>>)],
                   [path |-> Lit("VT_") \o bookname \o <<"_">> \o model_name
                                 \o Lit(".xlsx"),
                    sheets |-> << [name |-> Lit("Processes"),
                                   tables |->
                                       << [tag |-> "~FI_PROCESS",
                                           rows |-> process_rows \o trade.process_rows],
                                          [tag |-> "~FI_T",
                                           rows |->
                                               topology_rows
                                               \o CompileDemandProjections(
                                                      scenarios, default_region, years)
                                               \o trade.topology_rows] >>] >>] >>
                \o scenario_files
                \o trade.files
                \o CompileConstraints(Get(model, "constraints", <<>>),
                                      default_region, years)],
        processes |-> raw3]

(***************************************************************************)
(* table_schemas: the per-tag schemas and the table-shape validation       *)
(***************************************************************************)
\* Every arrangement of a finite set in a list
Arrangements(S) == { a \in [1..Cardinality(S) -> S] : Range(a) = S }

\* Column names in sorted order (str order), for sorted(columns)
ColumnOrder ==
    <<"act_bnd", "attribute", "com_cstnet", "com_proj", "commodity",
      "commodity-in", "commodity-out", "csets", "description", "eff", "limtype",
      "ncap_af", "ncap_cost", "primarycg", "process", "region", "side", "uc_n",
      "value", "year">>

\* _normalize_tag(tag) for the tags the compiler emits
NormalizeTag(tag) ==
    Get([x \in {"~FI_COMM"} |-> "fi_comm"] @@ [x \in {"~FI_PROCESS"} |-> "fi_process"]
            @@ [x \in {"~FI_T"} |-> "fi_t"] @@ [x \in {"~UC_T"} |-> "uc_t"]
            @@ [x \in {"~TFM_DINS-AT"} |-> "tfm_dins-at"]
            @@ [x \in {"~TRADELINKS"} |-> "tradelinks"],
        tag, tag)

\* A VedaTableSchema with the defaults of the dataclass
DefaultSchema(allowed, required) ==
    [allowed_columns |-> allowed, required_columns |-> required,
     forbidden_headers |-> {}, allow_value_column |-> TRUE,
     require_any_of |-> <<>>, valid_values |-> <<>>,
     mutually_exclusive_groups |-> <<>>]

\* get_all_schemas(): load_veda_tags_schemas, apply_manual_layouts,
\* apply_attribute_columns and apply_constraints over the configuration files
GetAllSchemas(cfg) ==
    LET loaded == [t \in DOMAIN cfg.tags |->
                      DefaultSchema(cfg.tags[t].columns, cfg.tags[t].required)]
        Manual(t, sc) ==
            CASE t = "fi_t" ->
                   [sc EXCEPT !.allow_value_column = FALSE,
                              !.forbidden_headers = @ \cup {"value"},
                              !.allowed_columns = @ \cup
                                  {"com_proj", "eff", "ncap_cost", "ncap_fom",
                                   "act_cost", "ncap_tlife", "ire_price", "act_bnd",
                                   "cap_bnd", "ncap_bnd", "share-o", "share-i",
                                   "commodity-in", "commodity-out", "commodity"}]
              [] t = "uc_t" ->
                   [sc EXCEPT !.mutually_exclusive_groups =
                                  << {"cset_cd", "cset_cn", "cset_set"},
                                     {"pset_pn", "pset_pd", "pset_set", "pset_ci",
                                      "pset_co"} >>,
                              !.allowed_columns = @ \cup
                                  {"uc_comprd", "uc_rhs", "uc_rhsrt", "commodity",
                                   "uc_sets", "value", "process", "uc_act"}]
              [] OTHER -> sc
        manual == [t \in DOMAIN loaded |-> Manual(t, loaded[t])]
                  @@ (IF "tfm_dins" \in DOMAIN loaded
                      THEN "tfm_dins-at" :>
                               [DefaultSchema(loaded["tfm_dins"].allowed_columns
                                                  \cup {"cset_cn", "com_cstnet"}, {})
                                EXCEPT !.allow_value_column = FALSE,
                                       !.forbidden_headers = {"value", "attribute"}]
                      ELSE <<>>)
        Attributes(t, sc) ==
            IF t \in {"fi_t", "tfm_dins-at", "uc_t"}
            THEN [sc EXCEPT !.allowed_columns = @ \cup cfg.headers]
            ELSE sc
        Constraints(t, sc) ==
            [sc EXCEPT !.require_any_of = Get(cfg.any_of, t, <<>>),
                       !.valid_values = Get(cfg.valid_values, t, <<>>)]
    IN [t \in DOMAIN manual |-> Constraints(t, Attributes(t, manual[t]))]

\* The columns of a table on which the two loops over the set all_columns
\* append an error
OffendingColumns(rows, schema) ==
    LET all_columns == UNION { DOMAIN rows[i] : i \in 1..Len(rows) }
    IN { col \in all_columns :
           \/ col \in schema.forbidden_headers
           \/ schema.allowed_columns # {} /\ col \notin schema.allowed_columns }

\* A variant that knows no alias
CanonicalOf_None(alias_map, col) == None

\* canonical = alias_map.get(col)
CanonicalOf(alias_map, col) ==
    IF col \in DOMAIN alias_map THEN Some(alias_map[col]) ELSE None

\* validate_table_rows(tag, rows, schema), the set all_columns being iterated
\* in the order iter (only the columns that yield an error are listed)
ValidateTableRows(tag, rows, schema, alias_map, iter) ==
    IF rows = <<>> THEN <<>>
    ELSE
    LET all_columns == UNION { DOMAIN rows[i] : i \in 1..Len(rows) }
        Error(kind, columns, row) ==
            [tag |-> tag, kind |-> kind, columns |-> columns, row |-> row]
        forbidden == SelectSeq(iter, LAMBDA col : col \in schema.forbidden_headers)
        unknown ==
            IF schema.allowed_columns = {} THEN <<>>
            ELSE SelectSeq(iter, LAMBDA col : col \notin schema.allowed_columns)
        RowErrors(i) ==
            LET keys == DOMAIN rows[i]
                missing == SelectSeq(ColumnOrder,
                               LAMBDA col : col \in schema.required_columns \ keys)
                groups == SelectSeq(schema.require_any_of,
                                    LAMBDA group : group \cap keys = {})
                enums == SelectSeq(ColumnOrder,
                             LAMBDA col : /\ col \in DOMAIN schema.valid_values
                                          /\ col \in keys
                                          /\ rows[i][col] \notin schema.valid_values[col])
                exclusive ==
                    SelectSeq(schema.mutually_exclusive_groups,
                        LAMBDA group :
                            Cardinality(group \cap keys \cap schema.allowed_columns) > 1)
            IN [j \in 1..Len(missing) |-> Error("missing required column", {missing[j]}, i)]
               \o [j \in 1..Len(groups) |-> Error("must have at least one of", groups[j], i)]
               \o [j \in 1..Len(enums) |-> Error("invalid value", {enums[j]}, i)]
               \o [j \in 1..Len(exclusive) |->
                      Error("mutually exclusive fields present",
                            exclusive[j] \cap keys, i)]
    IN (IF ~schema.allow_value_column /\ "value" \in all_columns
        THEN << Error("'value' column not allowed", {"value"}, 0) >>
        ELSE <<>>)
       \o [j \in 1..Len(forbidden) |-> Error("forbidden column", {forbidden[j]}, 0)]
       \o [j \in 1..Len(unknown) |->
              LET canonical == CanonicalOf(alias_map, unknown[j])
              IN IF canonical # None
                 THEN Error("is an alias column", {unknown[j], canonical[1]}, 0)
                 ELSE Error("unknown column", {unknown[j]}, 0)]
       \o Concat([i \in 1..Len(rows) |-> RowErrors(i)])

\* The tables of a TableIR in file, sheet, table order, each with its place
TablesOf(ir) ==
    Concat([f \in 1..Len(ir.files) |->
        Concat([sh \in 1..Len(ir.files[f].sheets) |->
            [t \in 1..Len(ir.files[f].sheets[sh].tables) |->
                [place |-> <<ir.files[f].path, ir.files[f].sheets[sh].name>>,
                 table |-> ir.files[f].sheets[sh].tables[t]]]])])

\* A variant that returns after the first table
ValidateTables_FirstOnly(tables, schemas, alias_map) ==
    IF tables = <<>> \/ NormalizeTag(tables[1].table.tag) \notin DOMAIN schemas
    THEN {<<>>}
    ELSE { [j \in 1..Len(errs) |-> [place |-> tables[1].place, error |-> errs[j]]] :
             errs \in { ValidateTableRows(tables[1].table.tag, tables[1].table.rows,
                                          schemas[NormalizeTag(tables[1].table.tag)],
                                          alias_map, iter) :
                          iter \in Arrangements(
                                      OffendingColumns(
                                          tables[1].table.rows,
                                          schemas[NormalizeTag(tables[1].table.tag)])) } }

\* validate_tableir(tableir, schemas): every error list it can return (one for
\* each order in which the column sets may be iterated)
RECURSIVE ValidateTables(_, _, _)
ValidateTables(tables, schemas, alias_map) ==
    IF tables = <<>> THEN {<<>>}
    ELSE LET table == tables[1].table
             normalized_tag == NormalizeTag(table.tag)
             rest == ValidateTables(Tail(tables), schemas, alias_map)
         IN IF normalized_tag \notin DOMAIN schemas THEN rest
            ELSE LET schema == schemas[normalized_tag]
                 IN { [j \in 1..Len(errs) |->
                          [place |-> tables[1].place, error |-> errs[j]]] \o more :
                        errs \in { ValidateTableRows(table.tag, table.rows, schema,
                                                     alias_map, iter) :
                                     iter \in Arrangements(
                                                 OffendingColumns(table.rows, schema)) },
                        more \in rest }

\* A variant that looks at the first table only
ValidateTableIR_FirstTable(ir, cfg) ==
    ValidateTables(SubSeq(TablesOf(ir), 1, 1), GetAllSchemas(cfg), cfg.aliases)

ValidateTableIR(ir, cfg) ==
    ValidateTables(TablesOf(ir), GetAllSchemas(cfg), cfg.aliases)

(***************************************************************************)
(* Inputs of the interpolation engine                                      *)
(***************************************************************************)
InterpolationModes ==
    {"none", "interp_only", "interp_extrap_eps", "interp_extrap",
     "interp_extrap_back", "interp_extrap_forward"}

YearKeys ==
    { <<"2", "0", "1", "0">>, <<"2", "0", "2", "0">>, <<"2", "0", "3", "0">>,
      <<"2", "0", "4", "0">>, <<"2", "0", "5", "0">> }

SeriesValues == {0, 100, 160}

PeriodLengths == {10, 20}

SparseSeries ==
    UNION { [ks -> SeriesValues] :
            ks \in {s \in SUBSET YearKeys : Cardinality(s) <= MaxPoints} }

RECURSIVE SeqsUpTo(_, _)
SeqsUpTo(S, n) ==
    IF n = 0 THEN {<<>>}
    ELSE LET shorter == SeqsUpTo(S, n - 1)
         IN  shorter \cup {Append(s, x) : s \in {t \in shorter : Len(t) = n - 1}, x \in S}

TimePeriodLists == SeqsUpTo(PeriodLengths, MaxPeriods) \ {<<>>}

(***************************************************************************)
(* Specification of one call of _expand_series_to_years                    *)
(***************************************************************************)
ValidateIdle ==
    /\ vtableir = None
    /\ vschemas = None
    /\ verrors = None
    /\ vpc = "idle"

CheckIdle ==
    /\ kmode = "none"
    /\ kpc = "idle"
    /\ kresult = None
    /\ kexc = None
    /\ kreturncode = None

PipelineIdle ==
    /\ pkind = "unknown"
    /\ pno_solver = FALSE
    /\ pkeep = FALSE
    /\ ppc = "idle"
    /\ presult = None
    /\ plocals = None

\* No call of a component outside the compiler is under way
OthersIdle == ValidateIdle /\ CheckIdle /\ PipelineIdle

CompileIdle ==
    /\ source = None
    /\ original = None
    /\ validate = FALSE
    /\ config = None
    /\ pc = "idle"
    /\ xref = None
    /\ tableir = None
    /\ returned = None
    /\ raised = None
    /\ again = None

TradeIdle ==
    /\ trade_links = <<>>
    /\ commodities = <<>>
    /\ trade_result = None
    /\ tpc = "idle"

InitExpand ==
    /\ TradeIdle
    /\ CompileIdle
    /\ OthersIdle
    /\ sparse_values \in SparseSeries
    /\ \E tp \in TimePeriodLists : model_years = GetModelYears(StartYear, tp)
    /\ interpolation \in InterpolationModes
    /\ dense_values = EmptyDict
    /\ xpc = "call"

ExpandCall ==
    /\ xpc = "call"
    /\ dense_values' = ExpandSeriesToYears(sparse_values, model_years, interpolation)
    /\ xpc' = "done"
    /\ UNCHANGED <<sparse_values, model_years, interpolation>>
    /\ UNCHANGED <<tvars, cvars, ovars>>

NextExpand == ExpandCall

SpecExpand == InitExpand /\ [][NextExpand]_vars

(***************************************************************************)
(* One call of _compile_trade_links on a bounded list of trade links       *)
(***************************************************************************)
MaxLinks == 2

RegionA == <<"A">>
RegionB == <<"B">>
CommE == <<"E">>
CommG == <<"G">>

RegionZ == <<"Z">>

TradeRegions == {RegionA, RegionB, RegionZ}

\* Every order in which a set of region names may be iterated
Seeds ==
    { seed \in [1..Cardinality(TradeRegions) -> TradeRegions] :
        Range(seed) = TradeRegions }

LinkPool ==
    { [origin |-> od[1], destination |-> od[2], commodity |-> c] @@ bi @@ eff :
        od \in {<<RegionA, RegionB>>, <<RegionB, RegionA>>, <<RegionA, RegionA>>},
        c \in {CommE, CommG},
        bi \in {<<>>, "bidirectional" :> FALSE},
        eff \in {<<>>, "efficiency" :> 90} }

TradeCommodities ==
    << [name |-> CommE, type |-> "energy"],
       [name |-> CommG, type |-> "energy", unit |-> Lit("GWh")] >>

ExpandIdle ==
    /\ sparse_values = EmptyDict
    /\ model_years = <<>>
    /\ interpolation = "none"
    /\ dense_values = EmptyDict
    /\ xpc = "idle"

InitTrade ==
    /\ ExpandIdle
    /\ OthersIdle
    /\ CompileIdle
    /\ trade_links \in SeqsUpTo(LinkPool, MaxLinks)
    /\ commodities = TradeCommodities
    /\ trade_result = None
    /\ tpc = "call"

TradeCall ==
    /\ tpc = "call"
    /\ \E seed \in Seeds :
           trade_result' = CompileTradeLinks(trade_links, commodities, seed)
    /\ tpc' = "done"
    /\ UNCHANGED <<trade_links, commodities>>
    /\ UNCHANGED <<xvars, cvars, ovars>>

NextTrade == TradeCall

SpecTrade == InitTrade /\ [][NextTrade]_vars

(***************************************************************************)
(* compile_vedalang_to_tableir, step by step                               *)
(***************************************************************************)
\* The enum of primary_commodity_group
ValidPcgs ==
    { Lit(code) : code \in {"DEMI", "DEMO", "MATI", "MATO", "NRGI", "NRGO",
                            "ENVI", "ENVO", "FINI", "FINO"} }

\* A schema without the rule on primary_commodity_group
SchemaValid_NoPcg(document) ==
    /\ "model" \in DOMAIN document
    /\ {"name", "regions", "commodities", "processes"} \subseteq DOMAIN document.model

\* jsonschema.validate(source, vedalang schema): the document has a model with
\* its required fields, and every process a primary_commodity_group of the enum
SchemaValid(document) ==
    /\ "model" \in DOMAIN document
    /\ {"name", "regions", "commodities", "processes"} \subseteq DOMAIN document.model
    /\ \A i \in 1..Len(document.model.processes) :
           /\ "primary_commodity_group" \in DOMAIN document.model.processes[i]
           /\ document.model.processes[i].primary_commodity_group \in ValidPcgs

\* jsonschema.validate(tableir, tableir schema): every tag starts with "~"
TableIRSchemaValid(ir) ==
    \A i \in 1..Len(TablesOf(ir)) :
        TablesOf(ir)[i].table.tag \in
            {"~BOOKREGIONS_MAP", "~STARTYEAR", "~ACTIVEPDEF", "~TIMEPERIODS",
             "~CURRENCIES", "~FI_COMM", "~FI_PROCESS", "~FI_T", "~TFM_DINS-AT",
             "~TRADELINKS", "~UC_T", "~TIMESLICES", "~TFM_INS"}

\* A variant that goes on to the lowering whatever the checks reported
Blocks_Never(errors) == FALSE

\* "if errors: raise ..." and "if table_errors: raise ..."
Blocks(errors) == errors # <<>>

Raise(type, errors) == Some([type |-> type, errors |-> errors])

\* The source document after its processes were passed to callees
WithProcesses(document, processes) ==
    [document EXCEPT !.model = [@ EXCEPT !.processes = processes]]

\* if validate: validate_vedalang(source);  model = source["model"]
ValidateVedalang ==
    /\ pc = "start"
    /\ IF validate /\ ~SchemaValid(source)
       THEN raised' = Raise("ValidationError", <<>>) /\ pc' = "raised"
       ELSE IF "model" \notin DOMAIN source
       THEN raised' = Raise("KeyError", <<>>) /\ pc' = "raised"
       ELSE raised' = raised /\ pc' = IF validate THEN "xref" ELSE "lower"
    /\ UNCHANGED <<source, original, validate, config, xref, tableir, returned, again>>
    /\ UNCHANGED <<xvars, tvars, ovars>>

\* if validate: errors, warnings = validate_cross_references(model); raise if errors
CrossReferences ==
    /\ pc = "xref"
    /\ LET report == ValidateCrossReferences(source.model)
       IN /\ xref' = Some(report)
          /\ source' = WithProcesses(source,
                           ProcessesAfterCalls(source.model.processes))
          /\ IF Blocks(report.errors)
             THEN raised' = Raise("SemanticValidationError", report.errors)
                  /\ pc' = "raised"
             ELSE raised' = raised /\ pc' = "lower"
    /\ UNCHANGED <<original, validate, config, tableir, returned, again>>
    /\ UNCHANGED <<xvars, tvars, ovars>>

\* process["primary_commodity_group"] of a process without the key
LacksPcg(model) ==
    \E i \in 1..Len(Get(model, "processes", <<>>)) :
        "primary_commodity_group" \notin DOMAIN model.processes[i]

\* The lowering, up to "tableir = {...}"
Lower ==
    /\ pc = "lower"
    /\ IF LacksPcg(source.model)
       THEN /\ raised' = Raise("KeyError", <<>>)
            /\ pc' = "raised"
            /\ UNCHANGED <<source, tableir>>
       ELSE /\ \E seed \in Seeds :
                   LET lowered == LowerModel(source.model, seed)
                   IN /\ tableir' = Some(lowered.tableir)
                      /\ source' = WithProcesses(source, lowered.processes)
            /\ pc' = "check"
            /\ raised' = raised
    /\ UNCHANGED <<original, validate, config, xref, returned, again>>
    /\ UNCHANGED <<xvars, tvars, ovars>>

\* if validate: the two validations of the TableIR;  return tableir
ValidateOutput ==
    /\ pc = "check"
    /\ IF validate /\ ~TableIRSchemaValid(tableir[1])
       THEN raised' = Raise("ValidationError", <<>>)
            /\ pc' = "raised" /\ returned' = returned
       ELSE \E table_errors \in IF validate THEN ValidateTableIR(tableir[1], config)
                                            ELSE {<<>>} :
                IF Blocks(table_errors)
                THEN raised' = Raise("TableValidationError", table_errors)
                     /\ pc' = "raised" /\ returned' = returned
                ELSE returned' = tableir /\ pc' = "returned" /\ raised' = raised
    /\ UNCHANGED <<source, original, validate, config, xref, tableir, again>>
    /\ UNCHANGED <<xvars, tvars, ovars>>

\* A second run on the same source, in the same process or another one: the
\* validations answer as before, the lowering runs under its own hash seed
Recompile ==
    /\ pc = "returned"
    /\ again = None
    /\ \E seed \in Seeds : again' = Some(LowerModel(source.model, seed).tableir)
    /\ UNCHANGED <<source, original, validate, config, pc, xref, tableir, returned,
                   raised>>
    /\ UNCHANGED <<xvars, tvars, ovars>>

Next == ValidateVedalang \/ CrossReferences \/ Lower \/ ValidateOutput \/ Recompile

(***************************************************************************)
(* Source documents and table-shape configurations                         *)
(***************************************************************************)
MaxProcs == 1

ProcP == <<"P", "1">>
ProcQ == <<"Q">>
CommD == <<"D">>
CommX == <<"X">>
CommY == <<"Y">>
Y2020 == <<"2", "0", "2", "0">>
Y2030 == <<"2", "0", "3", "0">>

BaseProcess ==
    [name |-> ProcP, sets |-> <<Lit("ELE")>>,
     primary_commodity_group |-> Lit("NRGO")]

FlowForms ==
    { <<>>,
      ("input" :> CommE) @@ ("output" :> CommD),
      [inputs |-> << [commodity |-> CommE] >>,
       outputs |-> << [commodity |-> CommD] >>],
      ("input" :> CommX) @@ ("output" :> CommY),
      [inputs |-> << [commodity |-> CommX], [commodity |-> CommE, share |-> 50] >>,
       outputs |-> << [commodity |-> CommD] >>] }

ProcPool ==
    { BaseProcess @@ flows @@ attrs :
        flows \in FlowForms,
        attrs \in { <<>>, [activity_bound |-> << <<"up", 100>> >>],
                    [activity_bound |-> << <<"up", 100>>, <<"lo", 10>> >>] } }
    \cup { BaseProcess @@ [outputs |-> << [commodity |-> CommD] >>] @@ attrs :
             attrs \in { [invcost |-> [values |-> (Y2020 :> 50) @@ (Y2030 :> 40)]],
                         [fixom |-> [values |-> (Y2030 :> 40),
                                     interpolation |-> "none"]],
                         [availability_factor |->
                             [values |-> (Y2020 :> 50) @@ (Y2030 :> 40),
                              interpolation |-> "interp_only"]],
                         [activity_unit |-> Lit("kg")],
                         [activity_unit |-> Lit("TJ"), capacity_unit |-> Lit("Mt")],
                         [activity_unit |-> Lit("kg"), capacity_unit |-> Lit("Mt")] } }
    \cup { BaseProcess @@ ("output" :> CommY) @@ [capacity_unit |-> Lit("Mt")] }

ScenarioPool ==
    { [name |-> <<"S">>, type |-> "commodity_price", commodity |-> CommE,
       interpolation |-> "interp_extrap", values |-> (Y2020 :> 100)],
      [name |-> <<"S">>, type |-> "commodity_price", commodity |-> CommD,
       interpolation |-> "interp_extrap", values |-> (Y2020 :> 100)],
      [name |-> <<"S">>, type |-> "demand_projection", commodity |-> CommD,
       interpolation |-> "interp_only", values |-> (Y2020 :> 100) @@ (Y2030 :> 160)] }

ConstraintPool ==
    { [name |-> <<"U">>, type |-> "emission_cap", commodity |-> CommE,
       limit |-> 100],
      [name |-> <<"U">>, type |-> "emission_cap", commodity |-> CommX,
       limtype |-> <<"l", "o">>, years |-> (Y2020 :> 100) @@ (Y2030 :> 160)],
      [name |-> <<"U">>, type |-> "activity_share", commodity |-> CommE,
       processes |-> <<ProcP, ProcQ>>, minimum_share |-> 30] }

\* The trade links of whole-model runs (CommG is not declared there)
ModelLinkPool ==
    { [origin |-> RegionA, destination |-> RegionB, commodity |-> CommE],
      [origin |-> RegionB, destination |-> RegionA, commodity |-> CommE,
       efficiency |-> 90],
      [origin |-> RegionA, destination |-> RegionB, commodity |-> CommE,
       efficiency |-> 95],
      [origin |-> RegionA, destination |-> RegionZ, commodity |-> CommG,
       bidirectional |-> FALSE] }

UpToOne(S) == {<<>>} \cup { <<x>> : x \in S }

ModelOf(processes, scenarios, constraints, links) ==
    [name |-> <<"m", "1">>,
     regions |-> <<RegionA, RegionB>>,
     commodities |-> << [name |-> CommE, type |-> "energy"],
                        [name |-> CommD, type |-> "demand", unit |-> Lit("PJ")] >>,
     processes |-> processes,
     scenarios |-> scenarios,
     constraints |-> constraints,
     trade_links |-> links,
     time_periods |-> <<10, 10, 10>>]

\* Models of many processes, and models that combine a process with scenarios,
\* constraints and trade links
Models ==
    { ModelOf(ps, <<>>, <<>>, <<>>) : ps \in SeqsUpTo(ProcPool, MaxProcs) }
    \cup { ModelOf(ps, scs, cs, ls) :
             ps \in UpToOne({ BaseProcess @@ ("input" :> CommX) @@ ("output" :> CommD)
                                  @@ [activity_bound |-> << <<"up", 100>> >>] }),
             scs \in UpToOne(ScenarioPool),
             cs \in UpToOne(ConstraintPool),
             ls \in SeqsUpTo(ModelLinkPool, MaxLinks) }

Documents(models) == { [not_a_model |-> TRUE] } \cup { [model |-> m] : m \in models }

\* veda-tags.json, attribute-master.json and constraints.yaml as loaded
TableConfig(any_of) ==
    [tags |->
        [fi_comm |-> [columns |-> {"region", "csets", "commodity", "unit"},
                      required |-> {}],
         fi_process |-> [columns |-> {"region", "process", "description", "sets",
                                      "tact", "tcap", "primarycg"},
                         required |-> {"process"}],
         fi_t |-> [columns |-> {"region", "process", "year", "limtype", "attribute"},
                   required |-> {}],
         tfm_dins |-> [columns |-> {"region", "year", "attribute", "value"},
                       required |-> {}],
         uc_t |-> [columns |-> {"uc_n", "description", "region", "year", "side",
                                "limtype"},
                   required |-> {"uc_n"}]],
     headers |-> {"eff", "ncap_cost", "ncap_fom", "act_cost", "ncap_tlife",
                  "ire_price", "ncap_af", "com_proj", "com_cstnet", "act_bnd",
                  "cap_bnd", "ncap_bnd"},
     aliases |-> [demand |-> "com_proj", invcost |-> "ncap_cost"],
     valid_values |->
         [fi_t |-> [limtype |-> {<<"U", "P">>, <<"L", "O">>, <<"F", "X">>}]],
     any_of |-> any_of]

TableConfigs ==
    { TableConfig(<<>>),
      TableConfig([fi_t |-> << {"commodity-in", "commodity-out", "eff",
                                "com_proj"} >>]),
      [TableConfig(<<>>) EXCEPT !.tags.fi_t.columns = {"region", "process"}] }

InitCompile(documents) ==
    /\ ExpandIdle
    /\ TradeIdle
    /\ OthersIdle
    /\ source \in documents
    /\ original = source
    /\ validate \in BOOLEAN
    /\ config \in TableConfigs
    /\ validate \/ config = TableConfig(<<>>)
    /\ pc = "start"
    /\ xref = None
    /\ tableir = None
    /\ returned = None
    /\ raised = None
    /\ again = None

Init == InitCompile(Documents(Models))

\* Models of one process that combine flows, efficiency, cost attributes and
\* bounds
ProcessShapes ==
    { BaseProcess @@ flows @@ eff @@ costs @@ bnds :
        flows \in { <<>>,
                    "output" :> CommD,
                    [outputs |-> << [commodity |-> CommD] >>],
                    [inputs |-> << [commodity |-> CommE] >>,
                     outputs |-> << [commodity |-> CommD], [commodity |-> CommE] >>] },
        eff \in { <<>>,
                  [efficiency |-> Scalar(90)],
                  [efficiency |-> [values |-> (Y2020 :> 80) @@ (Y2030 :> 90)]] },
        costs \in { <<>>,
                    [invcost |-> Scalar(50)],
                    [invcost |-> Scalar(50), life |-> Scalar(30)],
                    [availability_factor |-> Scalar(80)],
                    [fixom |-> Scalar(5),
                     invcost |-> [values |-> (Y2020 :> 50) @@ (Y2030 :> 40)]] },
        bnds \in { <<>>,
                   [activity_bound |-> << <<"up", 100>> >>],
                   [activity_bound |-> << <<"up", 100>>, <<"lo", 10>> >>],
                   [cap_bound |-> << <<"fx", 7>> >>,
                    ncap_bound |-> << <<"up", 3>> >>] } }

ProcessModels == { ModelOf(<<process>>, <<>>, <<>>, <<>>) : process \in ProcessShapes }

InitProc == InitCompile(Documents(ProcessModels))

SpecProc == InitProc /\ [][Next]_vars

\* Models of two processes and up to MaxCons user constraints
MaxCons == 2

Y2040 == <<"2", "0", "4", "0">>

ConstraintShapes ==
    { [type |-> "emission_cap", commodity |-> CommE, limit |-> 100],
      [type |-> "emission_cap", commodity |-> CommE, limit |-> 70,
       limtype |-> <<"l", "o">>],
      [type |-> "emission_cap", commodity |-> CommE, limtype |-> <<"f", "x">>,
       years |-> (Y2020 :> 100) @@ (Y2040 :> 160)],
      [type |-> "emission_cap", commodity |-> CommE,
       years |-> (Y2030 :> 50), interpolation |-> "interp_only"],
      [type |-> "emission_cap", commodity |-> CommE],
      [type |-> "activity_share", commodity |-> CommE, processes |-> <<ProcP>>,
       minimum_share |-> 30],
      [type |-> "activity_share", commodity |-> CommE, processes |-> <<ProcP, ProcQ>>,
       maximum_share |-> 60],
      [type |-> "activity_share", commodity |-> CommE, processes |-> <<ProcP, ProcQ>>,
       minimum_share |-> 30, maximum_share |-> 60],
      [type |-> "activity_share", commodity |-> CommE, processes |-> <<ProcQ>>,
       minimum_share |-> 0, maximum_share |-> 100],
      [type |-> "activity_share", commodity |-> CommE, processes |-> <<ProcP>>] }

\* The i-th constraint of a model is named U{i}
NamedConstraints(shapes) ==
    [i \in 1..Len(shapes) |-> [name |-> <<"U">> \o IntToStr(i)] @@ shapes[i]]

ConstraintModels ==
    { ModelOf(<< BaseProcess @@ [outputs |-> << [commodity |-> CommD] >>],
                 [BaseProcess EXCEPT !.name = ProcQ]
                     @@ [outputs |-> << [commodity |-> CommD] >>] >>,
              <<>>, NamedConstraints(shapes), <<>>) :
        shapes \in SeqsUpTo(ConstraintShapes, MaxCons) }

InitCons == InitCompile(Documents(ConstraintModels))

SpecCons == InitCons /\ [][Next]_vars

\* Models whose processes give a valid primary_commodity_group, none, or a
\* value outside the enum
PcgModels ==
    LET forms == { <<>>,
                   [primary_commodity_group |-> Lit("NRGO")],
                   [primary_commodity_group |-> Lit("DEMO")],
                   [primary_commodity_group |-> Lit("INVALID")] }
        Process(name, pcg) ==
            [name |-> name, sets |-> <<Lit("ELE")>>,
             outputs |-> << [commodity |-> CommD] >>] @@ pcg
    IN { ModelOf(<<Process(ProcP, first)>>, <<>>, <<>>, <<>>) : first \in forms }
       \cup { ModelOf(<<Process(ProcP, first), Process(ProcQ, second)>>,
                      <<>>, <<>>, <<>>) :
                first \in forms, second \in forms }

InitPcg == InitCompile(Documents(PcgModels))

SpecPcg == InitPcg /\ [][Next]_vars

\* Models of one or two commodities of every type, with and without a unit
CommodityModels ==
    LET forms == { type @@ unit :
                     type \in { <<>>, [type |-> "energy"], [type |-> "demand"],
                                [type |-> "emission"], [type |-> "material"] },
                     unit \in { <<>>, [unit |-> Lit("kt")], [unit |-> Lit("")] } }
        Commodity(name, form) == [name |-> name] @@ form
        Model(comms) ==
            [ModelOf(<<>>, <<>>, <<>>, <<>>) EXCEPT !.commodities = comms]
    IN { Model(<<Commodity(CommE, first)>>) : first \in forms }
       \cup { Model(<<Commodity(CommE, first), Commodity(CommD, second)>>) :
                first \in forms, second \in forms }

InitComm == InitCompile(Documents(CommodityModels))

SpecComm == InitComm /\ [][Next]_vars

MaxCodes == 2

\* Models with and without timeslices: each level undeclared or a list of up
\* to MaxCodes codes, with or without year fractions
TimesliceModels ==
    LET Level(name, codes) ==
            { <<>> } \cup { name :> [i \in 1..n |-> [code |-> <<codes[i]>>]] :
                              n \in 0..MaxCodes }
        shapes == { season @@ weekly @@ daynite @@ fractions :
                      season \in Level("season", <<"S", "W", "H", "A">>),
                      weekly \in Level("weekly", <<"K", "E", "M", "B">>),
                      daynite \in Level("daynite", <<"D", "N", "P", "C">>),
                      fractions \in { <<>>,
                                      [fractions |-> << <<Lit("SD"), 50>>,
                                                        <<Lit("SN"), 50>> >>] } }
    IN { ModelOf(<<>>, <<>>, <<>>, <<>>) }
       \cup { ModelOf(<<>>, <<>>, <<>>, <<>>) @@ [timeslices |-> shape] :
                shape \in shapes }

InitSlices == InitCompile(Documents(TimesliceModels))

SpecSlices == InitSlices /\ [][Next]_vars

(***************************************************************************)
(* One call of validate_tableir on a bounded TableIR                       *)
(***************************************************************************)
MaxRows == 2

\* TableIRs of one or two tables, in one sheet, in two sheets or in two files.
\* The first table has up to MaxRows rows, a second one at most one row: ~FI_T
\* rows with canonical columns, alias columns (demand, invcost) or no data
\* column; ~FI_COMM rows with and without their required columns; a table
\* whose tag has no schema
TableIRPool ==
    LET base == [region |-> Lit("R1"), process |-> ProcP]
        fi_t_rows == { base @@ [eff |-> 50],
                       base @@ [eff |-> 50, demand |-> 100],
                       base @@ [eff |-> 50, demand |-> 100, invcost |-> 500],
                       base }
        fi_comm_rows == { [csets |-> "NRG", commodity |-> CommE],
                          [csets |-> "NRG"],
                          [region |-> Lit("R1")] }
        Tables(fi_t_lists, fi_comm_lists) ==
            { [tag |-> "~FI_T", rows |-> rows] : rows \in fi_t_lists }
            \cup { [tag |-> "~FI_COMM", rows |-> rows] : rows \in fi_comm_lists }
            \cup { [tag |-> "~NOSCHEMA", rows |-> << [demand |-> 100] >>] }
        TablePool == Tables(SeqsUpTo(fi_t_rows, MaxRows),
                            SeqsUpTo(fi_comm_rows, MaxRows))
        SecondPool == Tables({<<>>} \cup { <<row>> : row \in fi_t_rows },
                             {<<>>} \cup { <<row>> : row \in fi_comm_rows })
        Sheet(name, tables) == [name |-> Lit(name), tables |-> tables]
        File(path, sheets) == [path |-> Lit(path), sheets |-> sheets]
    IN { [files |-> << File("a.xlsx", << Sheet("A", <<t>>) >>) >>] : t \in TablePool }
       \cup { [files |-> << File("a.xlsx", << Sheet("A", <<t, u>>) >>) >>] :
                t \in TablePool, u \in SecondPool }
       \cup { [files |-> << File("a.xlsx", << Sheet("A", <<t>>),
                                               Sheet("B", <<u>>) >>) >>] :
                t \in TablePool, u \in SecondPool }
       \cup { [files |-> << File("a.xlsx", << Sheet("A", <<t>>) >>),
                            File("b.xlsx", << Sheet("A", <<u>>) >>) >>] :
                t \in TablePool, u \in SecondPool }

\* The TableIR and the configuration of the call; ~FI_COMM rows require
\* commodity and csets
InitValidate ==
    /\ ExpandIdle
    /\ TradeIdle
    /\ CompileIdle
    /\ CheckIdle
    /\ PipelineIdle
    /\ vtableir \in { Some(ir) : ir \in TableIRPool }
    /\ vschemas \in
           { Some([TableConfig(any_of)
                       EXCEPT !.tags.fi_comm.required = {"commodity", "csets"}]) :
               any_of \in { <<>>, [fi_t |-> << {"commodity-in", "commodity-out",
                                                "eff", "com_proj"} >>] } }
    /\ verrors = None
    /\ vpc = "call"

\* errors = validate_tableir(tableir, schemas)
ValidateCall ==
    /\ vpc = "call"
    /\ \E errors \in ValidateTableIR(vtableir[1], vschemas[1]) :
           verrors' = Some(errors)
    /\ vpc' = "done"
    /\ UNCHANGED <<vtableir, vschemas>>
    /\ UNCHANGED <<xvars, tvars, cvars, kvars, pvars>>

NextValidate == ValidateCall

SpecValidate == InitValidate /\ [][NextValidate]_vars

(***************************************************************************)
(* tools.veda_check: one call of run_check                                 *)
(***************************************************************************)
MaxDiags == 2

\* The severities of the entries of diagnostics.json
Severities == {"error", "warning", "info"}

\* What a callee can do: return, raise jsonschema.ValidationError, or raise
\* another Exception
Outcomes == {"ok", "ValidationError", "Exception"}

\* result = CheckResult(success=False, source_path=input_path)
InitCheck ==
    /\ ExpandIdle
    /\ TradeIdle
    /\ CompileIdle
    /\ ValidateIdle
    /\ PipelineIdle
    /\ kmode \in {"vedalang", "tableir", "none"}
    /\ kpc = "step1"
    /\ kresult = [success |-> FALSE, total_rows |-> 0, warnings |-> 0, errors |-> 0,
                  error_messages |-> <<>>, manifest |-> None, diagnostics |-> None]
    /\ kexc = None
    /\ kreturncode = None

\* A statement of the try block raises: control goes to the except clauses
Raises(exception) ==
    /\ kexc' = Some(exception)
    /\ kpc' = "except"
    /\ UNCHANGED <<kresult, kreturncode>>

\* Step 1: load_vedalang and compile_vedalang_to_tableir, or load_tableir, or
\* ValueError; then the table info is read from the TableIR
CheckGetTableIR ==
    /\ kpc = "step1"
    /\ \E outcome \in IF kmode = "vedalang" THEN Outcomes
                       ELSE IF kmode = "tableir" THEN {"ok", "Exception"}
                       ELSE {"Exception"} :
           IF outcome = "ok"
           THEN \E rows \in 0..MaxDiags :
                    /\ kresult' = [kresult EXCEPT !.total_rows = rows]
                    /\ kpc' = "step2"
                    /\ UNCHANGED <<kexc, kreturncode>>
           ELSE Raises(outcome)
    /\ UNCHANGED <<kmode>>
    /\ UNCHANGED <<xvars, tvars, cvars, vvars, pvars>>

\* Step 2: invariant_errors = check_tableir_invariants(tableir); with errors
\* the result is returned at once
CheckInvariants ==
    /\ kpc = "step2"
    /\ \E outcome \in {"ok", "Exception"}, invariant_errors \in 0..MaxDiags :
           IF outcome # "ok" THEN Raises(outcome)
           ELSE IF invariant_errors > 0
           THEN /\ kresult' =
                       [kresult EXCEPT
                           !.errors = @ + invariant_errors,
                           !.error_messages =
                               @ \o [i \in 1..invariant_errors |-> "invariant"]]
                /\ kpc' = "returned"
                /\ UNCHANGED <<kexc, kreturncode>>
           ELSE kpc' = "step3" /\ UNCHANGED <<kresult, kexc, kreturncode>>
    /\ UNCHANGED <<kmode>>
    /\ UNCHANGED <<xvars, tvars, cvars, vvars, pvars>>

\* Step 3: emit_excel(tableir, tmpdir) in a temporary directory
CheckEmitExcel ==
    /\ kpc = "step3"
    /\ \E outcome \in Outcomes :
           IF outcome = "ok"
           THEN kpc' = "step4" /\ UNCHANGED <<kresult, kexc, kreturncode>>
           ELSE Raises(outcome)
    /\ UNCHANGED <<kmode>>
    /\ UNCHANGED <<xvars, tvars, cvars, vvars, pvars>>

\* Step 4: proc = subprocess.run(["uv", "run", "xl2times", ...])
CheckRunXl2times ==
    /\ kpc = "step4"
    /\ \E outcome \in {"ok", "Exception"}, returncode \in {0, 1} :
           IF outcome = "ok"
           THEN /\ kreturncode' = Some(returncode)
                /\ kpc' = "step5"
                /\ UNCHANGED <<kresult, kexc>>
           ELSE Raises(outcome)
    /\ UNCHANGED <<kmode>>
    /\ UNCHANGED <<xvars, tvars, cvars, vvars, pvars>>

\* A variant that looks at the exit code only
Success_ExitCodeOnly(returncode, errors) == returncode = 0

\* result.success = proc.returncode == 0 and result.errors == 0
Success(returncode, errors) == returncode = 0 /\ errors = 0

\* Step 5: manifest.json and diagnostics.json are read if they exist, the
\* diagnostics are counted, success is determined; a file that cannot be
\* parsed, or an entry that is no dict, raises
CheckParseOutputs ==
    /\ kpc = "step5"
    /\ \E outcome \in {"ok", "Exception"},
          manifest \in {None, Some("manifest")},
          diagnostics \in {None} \cup { Some(d) : d \in SeqsUpTo(Severities, MaxDiags) } :
           LET entries == IF diagnostics = None THEN <<>> ELSE diagnostics[1]
               counted_errors == Len(SelectSeq(entries, LAMBDA d : d = "error"))
               counted_warnings == Len(SelectSeq(entries, LAMBDA d : d = "warning"))
               errors == kresult.errors + counted_errors
               counted == [kresult EXCEPT
                              !.warnings = @ + counted_warnings,
                              !.errors = errors,
                              !.error_messages =
                                  @ \o [i \in 1..counted_errors |-> "diagnostic"],
                              !.manifest = manifest,
                              !.diagnostics = diagnostics]
           IN IF outcome # "ok"
              THEN \* a read or an entry raises after these were counted
                   /\ kresult' = counted
                   /\ kexc' = Some(outcome)
                   /\ kpc' = "except"
                   /\ UNCHANGED <<kreturncode>>
              ELSE /\ kresult' =
                          [counted EXCEPT !.success = Success(kreturncode[1], errors)]
                   /\ kpc' = "returned"
                   /\ UNCHANGED <<kexc, kreturncode>>
    /\ UNCHANGED <<kmode>>
    /\ UNCHANGED <<xvars, tvars, cvars, vvars, pvars>>

\* A variant without the except clauses
CheckExcept_Propagates ==
    /\ kpc = "except"
    /\ kpc' = "raised"
    /\ UNCHANGED <<kmode, kresult, kexc, kreturncode>>
    /\ UNCHANGED <<xvars, tvars, cvars, vvars, pvars>>

\* except jsonschema.ValidationError / except Exception: the error is counted
\* and the result returned
CheckExcept ==
    /\ kpc = "except"
    /\ kresult' =
           [kresult EXCEPT
               !.errors = @ + 1,
               !.error_messages =
                   Append(@, IF kexc[1] = "ValidationError"
                             THEN "Schema validation" ELSE "exception")]
    /\ kexc' = None
    /\ kpc' = "returned"
    /\ UNCHANGED <<kmode, kreturncode>>
    /\ UNCHANGED <<xvars, tvars, cvars, vvars, pvars>>

NextCheck ==
    \/ CheckGetTableIR
    \/ CheckInvariants
    \/ CheckEmitExcel
    \/ CheckRunXl2times
    \/ CheckParseOutputs
    \/ CheckExcept

SpecCheck == InitCheck /\ [][NextCheck]_vars

(***************************************************************************)
(* Specification of one call of run_pipeline (tools/veda_dev/pipeline.py)  *)
(***************************************************************************)
\* The stages in the order of the function body
Stages == <<"compile", "emit_excel", "xl2times", "run_times">>

InputKinds == {"vedalang", "tableir", "excel", "dd", "unknown"}

\* StepResult(): skipped False, success True, no errors, no warnings
StepResult(name) ==
    [name |-> name, skipped |-> FALSE, success |-> TRUE, errors |-> <<>>,
     warnings |-> 0]

\* except Exception as e: success = False; errors.append(str(e))
StepFailed(step, message) ==
    [step EXCEPT !.success = FALSE, !.errors = Append(@, message)]

\* result = PipelineResult() with input_kind and work_dir set; the three
\* locals of the try block are None
InitPipeline ==
    /\ ExpandIdle
    /\ TradeIdle
    /\ CompileIdle
    /\ ValidateIdle
    /\ CheckIdle
    /\ pkind \in InputKinds
    /\ pno_solver \in BOOLEAN
    /\ pkeep \in BOOLEAN
    /\ ppc = "compile"
    /\ presult = [success |-> FALSE, input_kind |-> pkind, work_dir |-> "work_dir",
                  steps |-> <<>>, artifacts |-> {}]
    /\ plocals = [tableir_file |-> FALSE, excel_dir |-> FALSE, dd_dir |-> FALSE]

\* A variant that goes on to the next stage whatever the step reported
Continues_Always(step) == TRUE

\* if not step_result.success: return result
Continues(step) == step.success

\* result.steps[name] = step, then the early return through the finally
\* clause or the next stage
RecordStep(step, next) ==
    /\ presult' = [presult EXCEPT !.steps = Append(@, step)]
    /\ ppc' = IF Continues(step) THEN next ELSE "finally"

\* Step 1: compile VedaLang -> TableIR
PipeCompile ==
    /\ ppc = "compile"
    /\ IF pkind = "vedalang"
       THEN \E outcome \in {"ok", "Exception"} :
                IF outcome = "ok"
                THEN /\ plocals' = [plocals EXCEPT !.tableir_file = TRUE]
                     /\ RecordStep(StepResult("compile"), "emit_excel")
                ELSE /\ plocals' = plocals
                     /\ RecordStep(StepFailed(StepResult("compile"), "exception"),
                                   "emit_excel")
       ELSE /\ plocals' = [plocals EXCEPT !.tableir_file = (pkind = "tableir")]
            /\ RecordStep([StepResult("compile") EXCEPT !.skipped = TRUE],
                          "emit_excel")
    /\ UNCHANGED <<pkind, pno_solver, pkeep>>
    /\ UNCHANGED <<xvars, tvars, cvars, vvars, kvars>>

\* Step 2: emit Excel
PipeEmitExcel ==
    /\ ppc = "emit_excel"
    /\ IF pkind \in {"vedalang", "tableir"} /\ plocals.tableir_file
       THEN \E outcome \in {"ok", "Exception"} :
                IF outcome = "ok"
                THEN /\ plocals' = [plocals EXCEPT !.excel_dir = TRUE]
                     /\ RecordStep(StepResult("emit_excel"), "xl2times")
                ELSE \E assigned \in BOOLEAN :
                         \* load_tableir raises before, emit_excel after
                         \* excel_dir is assigned
                         /\ plocals' = [plocals EXCEPT !.excel_dir = assigned]
                         /\ RecordStep(StepFailed(StepResult("emit_excel"),
                                                  "exception"), "xl2times")
       ELSE /\ plocals' = [plocals EXCEPT !.excel_dir = (pkind = "excel")]
            /\ RecordStep([StepResult("emit_excel") EXCEPT !.skipped = TRUE],
                          "xl2times")
    /\ UNCHANGED <<pkind, pno_solver, pkeep>>
    /\ UNCHANGED <<xvars, tvars, cvars, vvars, kvars>>

\* A variant in which a severity=error diagnostic fails the step as well
Xl2timesSuccess_NoErrors(returncode, errors) == returncode = 0 /\ errors = <<>>

\* if proc.returncode != 0: xl2times_result.success = False
Xl2timesSuccess(returncode, errors) == returncode = 0

\* Step 3: xl2times (Excel -> DD): the subprocess is run, the diagnostics
\* file is read if it exists and its entries are sorted into errors and
\* warnings, the exit code decides on success; mkdir, subprocess.run or
\* json.load may raise
PipeXl2times ==
    /\ ppc = "xl2times"
    /\ IF pkind \in {"vedalang", "tableir", "excel"} /\ plocals.excel_dir
       THEN /\ plocals' = [plocals EXCEPT !.dd_dir = TRUE]
            /\ \E outcome \in {"ok", "Exception"},
                  returncode \in {0, 1},
                  stderr \in BOOLEAN,
                  diagnostics \in {None} \cup
                      { Some(d) : d \in SeqsUpTo(Severities, MaxDiags) } :
                   LET entries == IF diagnostics = None THEN <<>> ELSE diagnostics[1]
                       counted ==
                           [StepResult("xl2times") EXCEPT
                               !.errors = SelectSeq([i \in 1..Len(entries) |->
                                                        IF entries[i] = "error"
                                                        THEN "diagnostic"
                                                        ELSE "none"],
                                                    LAMBDA e : e = "diagnostic"),
                               !.warnings = Len(SelectSeq(entries,
                                                LAMBDA d : d = "warning"))]
                   IN IF outcome = "ok"
                      THEN RecordStep(
                               [counted EXCEPT
                                   !.success = Xl2timesSuccess(returncode, counted.errors),
                                   !.errors = IF returncode # 0 /\ stderr
                                              THEN Append(@, "stderr") ELSE @],
                               "run_times")
                      ELSE RecordStep(StepFailed(counted, "exception"), "run_times")
       ELSE /\ plocals' = [plocals EXCEPT !.dd_dir = (pkind = "dd")]
            /\ RecordStep([StepResult("xl2times") EXCEPT !.skipped = TRUE],
                          "run_times")
    /\ UNCHANGED <<pkind, pno_solver, pkeep>>
    /\ UNCHANGED <<xvars, tvars, cvars, vvars, kvars>>

\* result.success = all(step.success or step.skipped for step in steps)
AggregateSuccess(steps) ==
    \A i \in 1..Len(steps) : steps[i].success \/ steps[i].skipped

\* Step 4: run the TIMES solver, then aggregate success and collect the
\* top-level artifacts
PipeRunTimes ==
    /\ ppc = "run_times"
    /\ \E step \in
            IF pno_solver
            THEN { [StepResult("run_times") EXCEPT !.skipped = TRUE] }
            ELSE IF plocals.dd_dir
            THEN { StepFailed(StepResult("run_times"), "exception"),
                   StepFailed(StepResult("run_times"), "TIMES source not found") }
                 \cup { [StepResult("run_times") EXCEPT
                            !.success = success, !.errors = errors] :
                          success \in BOOLEAN,
                          errors \in {<<>>, <<"solver">>} }
            ELSE { [StepResult("run_times") EXCEPT !.skipped = TRUE] } :
           /\ presult' =
                  [presult EXCEPT
                      !.steps = Append(@, step),
                      !.success = AggregateSuccess(Append(presult.steps, step)),
                      !.artifacts =
                          {"work_dir"}
                              \cup { key \in DOMAIN plocals : plocals[key] }]
    /\ ppc' = "finally"
    /\ UNCHANGED <<pkind, pno_solver, pkeep, plocals>>
    /\ UNCHANGED <<xvars, tvars, cvars, vvars, kvars>>

\* finally: the work directory is removed on success unless it is kept (a
\* failing rmtree is ignored); return result
PipeFinish ==
    /\ ppc = "finally"
    /\ IF ~pkeep /\ presult.success
       THEN \E removed \in BOOLEAN :
                presult' = [presult EXCEPT
                               !.work_dir = IF removed THEN "(cleaned up)" ELSE @]
       ELSE presult' = presult
    /\ ppc' = "returned"
    /\ UNCHANGED <<pkind, pno_solver, pkeep, plocals>>
    /\ UNCHANGED <<xvars, tvars, cvars, vvars, kvars>>

NextPipeline ==
    \/ PipeCompile
    \/ PipeEmitExcel
    \/ PipeXl2times
    \/ PipeRunTimes
    \/ PipeFinish

SpecPipeline == InitPipeline /\ [][NextPipeline]_vars

Spec == Init /\ [][Next]_vars

(***************************************************************************)
(* Claims about _expand_series_to_years                                    *)
(***************************************************************************)
\* The input points as the caller reads them: (year, value) pairs
InputPoints == { <<StrToInt(k), sparse_values[k]>> : k \in DOMAIN sparse_values }

ModelYearSet == { model_years[i] : i \in 1..Len(model_years) }

PointsBelow(ym) == { p \in InputPoints : p[1] < ym }
PointsAbove(ym) == { p \in InputPoints : p[1] > ym }
HasExactPoint(ym) == \E p \in InputPoints : p[1] = ym

NearestBelow(ym) == CHOOSE p \in PointsBelow(ym) : \A q \in PointsBelow(ym) : q[1] <= p[1]
NearestAbove(ym) == CHOOSE p \in PointsAbove(ym) : \A q \in PointsAbove(ym) : q[1] >= p[1]

\* r = v0 + (v1 - v0) * (ym - y0) / (y1 - y0), cleared of the division
IsLinearAt(r, p0, p1, ym) ==
    r[1] * (p1[1] - p0[1]) =
        r[2] * (p0[2] * (p1[1] - p0[1]) + (p1[2] - p0[2]) * (ym - p0[1]))

\* C4: in every mode a model year with an exact input point gets that point's
\* value; in mode none no other year is in the result; in every other mode a
\* model year strictly between two input points gets the value on the straight
\* line through its nearest neighbours below and above.
C4_ExactAndLinear ==
    xpc = "done" =>
        /\ \A ym \in ModelYearSet : \A p \in InputPoints :
               p[1] = ym => ym \in DOMAIN dense_values /\ dense_values[ym] = Num(p[2])
        /\ interpolation = "none" =>
               \A y \in DOMAIN dense_values : HasExactPoint(y)
        /\ interpolation # "none" =>
               \A ym \in ModelYearSet :
                   (~HasExactPoint(ym) /\ PointsBelow(ym) # {} /\ PointsAbove(ym) # {}) =>
                       /\ ym \in DOMAIN dense_values
                       /\ IsLinearAt(dense_values[ym], NearestBelow(ym), NearestAbove(ym), ym)

\* A finished call where a model year was interpolated between its nearest
\* neighbours although a further point lies below it.
C4_Witness ==
    /\ xpc = "done"
    /\ interpolation = "interp_only"
    /\ \E ym \in ModelYearSet :
           /\ ~HasExactPoint(ym)
           /\ Cardinality(PointsBelow(ym)) >= 2
           /\ PointsAbove(ym) # {}
           /\ ym \in DOMAIN dense_values
           /\ dense_values[ym] # Num(NearestBelow(ym)[2])
           /\ dense_values[ym] # Num(NearestAbove(ym)[2])

\* C5: a model year before the first point gets the first point's value only in
\* modes interp_extrap and interp_extrap_back, a model year after the last point
\* gets the last point's value only in modes interp_extrap, interp_extrap_forward
\* and interp_extrap_eps; in every other mode the year is absent, and the years
\* of the result are a subset of the model years.
C5_Extrapolation ==
    xpc = "done" =>
        /\ DOMAIN dense_values \subseteq ModelYearSet
        /\ \A ym \in ModelYearSet :
            /\ (InputPoints # {} /\ PointsBelow(ym) = {} /\ ~HasExactPoint(ym)) =>
                 IF interpolation \in {"interp_extrap", "interp_extrap_back"}
                 THEN /\ ym \in DOMAIN dense_values
                      /\ dense_values[ym] = Num(NearestAbove(ym)[2])
                 ELSE ym \notin DOMAIN dense_values
            /\ (InputPoints # {} /\ PointsAbove(ym) = {} /\ ~HasExactPoint(ym)) =>
                 IF interpolation \in
                        {"interp_extrap", "interp_extrap_forward", "interp_extrap_eps"}
                 THEN /\ ym \in DOMAIN dense_values
                      /\ dense_values[ym] = Num(NearestBelow(ym)[2])
                 ELSE ym \notin DOMAIN dense_values

\* A finished call in mode interp_extrap_eps that held the last value forward
\* and left a year before the first point out.
C5_Witness ==
    /\ xpc = "done"
    /\ interpolation = "interp_extrap_eps"
    /\ \E ym \in ModelYearSet :
           /\ PointsAbove(ym) = {} /\ PointsBelow(ym) # {} /\ ~HasExactPoint(ym)
           /\ ym \in DOMAIN dense_values
    /\ \E ym \in ModelYearSet :
           /\ PointsBelow(ym) = {} /\ PointsAbove(ym) # {} /\ ~HasExactPoint(ym)
           /\ ym \notin DOMAIN dense_values

(***************************************************************************)
(* Trade links: what the claims speak of                                   *)
(***************************************************************************)
\* How many rows of a list satisfy a condition
CountRows(rows, Cond(_)) == Cardinality({ i \in 1..Len(rows) : Cond(rows[i]) })

\* The name the specification gives the process of a link
ExpectedTradeName(link) ==
    <<"T", "_", IF LinkBidirectional(link) THEN "B" ELSE "U", "_">>
        \o link.commodity \o <<"_">> \o link.origin \o <<"_">>
        \o link.destination \o <<"_", "0", "1">>

TradeLinksRows ==
    UNION { UNION { Range(t.rows) : t \in Range(sh.tables) } :
              sh \in UNION { Range(f.sheets) : f \in Range(trade_result.files) } }

\* Declarations of process n in region r
Declarations(n, r) ==
    CountRows(trade_result.process_rows,
              LAMBDA row : row.process = n /\ row.region = r)

\* Topology rows (without eff) of process n in region r with column col = c
TopologyRows(n, r, col, c) ==
    CountRows(trade_result.topology_rows,
              LAMBDA row : /\ row.process = n
                           /\ row.region = r
                           /\ "eff" \notin DOMAIN row
                           /\ col \in DOMAIN row
                           /\ row[col] = c)

TradeLinkAsClaimed(link) ==
    LET n == ExpectedTradeName(link)
        O == link.origin
        D == link.destination
        C == link.commodity
    IN /\ \E row \in TradeLinksRows :
              /\ C \in DOMAIN row /\ row[C] = O
              /\ D \in DOMAIN row /\ row[D] = n
       /\ Declarations(n, O) = 1
       /\ IF LinkBidirectional(link) THEN Declarations(n, D) = 1
                                     ELSE Declarations(n, D) = 0
       /\ \A i \in 1..Len(trade_result.process_rows) :
              trade_result.process_rows[i].process = n
                  => trade_result.process_rows[i].sets = Lit("IRE")
       /\ TopologyRows(n, O, "commodity-out", C) = 1
       /\ TopologyRows(n, D, "commodity-in", C) = 1

\* C10: every trade link gets the name T_B_C_O_D_01 (bidirectional) or
\* T_U_C_O_D_01 (unidirectional); each generated name has exactly one
\* ~FI_PROCESS row in the origin region, exactly one in the destination region
\* when bidirectional and none there when unidirectional, all with sets=IRE,
\* and exactly one commodity-out topology row in the origin region and one
\* commodity-in topology row in the destination region, however many links
\* generate the name.
C10_TradeLinkRows ==
    tpc = "done" =>
        \A i \in 1..Len(trade_links) : TradeLinkAsClaimed(trade_links[i])


(***************************************************************************)
(* Whole-model runs: what the claims speak of                              *)
(***************************************************************************)
RECURSIVE SumOf(_)
SumOf(numbers) == IF numbers = <<>> THEN 0 ELSE numbers[1] + SumOf(Tail(numbers))

\* The rows of every table of a TableIR that carries the tag
TableRows(ir, tag) ==
    Concat([i \in 1..Len(TablesOf(ir)) |->
               IF TablesOf(ir)[i].table.tag = tag THEN TablesOf(ir)[i].table.rows
               ELSE <<>>])

DeclaredCommodities(model) ==
    { model.commodities[i].name : i \in 1..Len(model.commodities) }

\* How many references of a model are unresolved or type-incompatible
OffendingReferences(model) ==
    LET known == DeclaredCommodities(model)
        names == { model.processes[i].name : i \in 1..Len(model.processes) }
        regions == Range(model.regions)
        Flows(p, short, long) ==
            IF long \in DOMAIN p THEN [i \in 1..Len(p[long]) |-> p[long][i].commodity]
            ELSE IF short \in DOMAIN p THEN <<p[short]>>
            ELSE <<>>
        Unknown(refs, declared) ==
            Cardinality({ i \in 1..Len(refs) : refs[i] \notin declared })
        TypeOf(c) ==
            (CHOOSE i \in 1..Len(model.commodities) : model.commodities[i].name = c)
        Mismatch(sc) ==
            LET type == model.commodities[TypeOf(sc.commodity)].type
            IN \/ sc.type = "demand_projection" /\ type # "demand"
               \/ sc.type = "commodity_price" /\ type = "demand"
    IN SumOf([i \in 1..Len(model.processes) |->
                 Unknown(Flows(model.processes[i], "input", "inputs"), known)
                 + Unknown(Flows(model.processes[i], "output", "outputs"), known)])
       + SumOf([i \in 1..Len(model.constraints) |->
                 Unknown(<<model.constraints[i].commodity>>, known)
                 + Unknown(Get(model.constraints[i], "processes", <<>>), names)])
       + SumOf([i \in 1..Len(model.trade_links) |->
                 Unknown(<<model.trade_links[i].origin,
                           model.trade_links[i].destination>>, regions)
                 + Unknown(<<model.trade_links[i].commodity>>, known)])
       + SumOf([i \in 1..Len(model.scenarios) |->
                 IF model.scenarios[i].commodity \notin known THEN 1
                 ELSE IF Mismatch(model.scenarios[i]) THEN 1 ELSE 0])

RaisedWith(type) == pc = "raised" /\ raised # None /\ raised[1].type = type

\* C1: with validation on, when k >= 1 references of the model are
\* unresolved or type-incompatible, the call raises one
\* SemanticValidationError whose errors list has exactly k entries (never
\* only the first); when there is none, it raises no such error.
C1_AllErrorsCollected ==
    (validate /\ SchemaValid(original) /\ pc \notin {"start", "xref"}) =>
        LET k == OffendingReferences(original.model)
        IN IF k >= 1
           THEN /\ RaisedWith("SemanticValidationError")
                /\ Len(raised[1].errors) = k
                /\ xref[1].errors = raised[1].errors
           ELSE ~RaisedWith("SemanticValidationError")

\* Errors from a process flow, a constraint, a trade link and a scenario at once
C1_Witness ==
    /\ validate
    /\ RaisedWith("SemanticValidationError")
    /\ Len(raised[1].errors) >= 5
    /\ Len(original.model.processes) = 1
    /\ Len(original.model.scenarios) = 1

\* C2: with validation on, when the source fails the structural schema check
\* or the cross-reference check reports an error, the call raises and no
\* lowering happens: no TableIR is built and none is returned.
C2_NoLoweringAfterRejection ==
    (validate /\ (~SchemaValid(original) \/ (xref # None /\ xref[1].errors # <<>>))) =>
        /\ tableir = None
        /\ returned = None
        /\ again = None
        /\ pc \in {"start", "raised"}
        /\ pc = "raised" => raised # None

C2_Witness ==
    /\ validate
    /\ pc = "raised"
    /\ xref # None
    /\ xref[1].errors # <<>>
    /\ tableir = None

\* The table-shape rules a TableIR breaks under a configuration: the table,
\* the rule, the columns and the row (0 for a rule on the whole table)
ShapeViolations(ir, cfg) ==
    LET schemas == GetAllSchemas(cfg)
        tables == TablesOf(ir)
        Of(t) ==
            LET rows == tables[t].table.rows
                schema == schemas[NormalizeTag(tables[t].table.tag)]
                columns == UNION { DOMAIN rows[i] : i \in 1..Len(rows) }
                InRow(i) ==
                    { <<t, "required", {col}, i>> :
                          col \in schema.required_columns \ DOMAIN rows[i] }
                    \cup { <<t, "any of", group, i>> :
                             group \in { g \in Range(schema.require_any_of) :
                                           g \cap DOMAIN rows[i] = {} } }
                    \cup { <<t, "valid value", {col}, i>> :
                             col \in { c \in DOMAIN schema.valid_values \cap DOMAIN rows[i] :
                                         rows[i][c] \notin schema.valid_values[c] } }
                    \cup { <<t, "exclusive", group, i>> :
                             group \in { g \in Range(schema.mutually_exclusive_groups) :
                                           Cardinality(g \cap DOMAIN rows[i]) > 1 } }
            IN { <<t, "value column", {"value"}, 0>> :
                     col \in IF schema.allow_value_column THEN {} ELSE columns \cap {"value"} }
               \cup { <<t, "forbidden", {col}, 0>> :
                        col \in columns \cap schema.forbidden_headers }
               \cup { <<t, "allowed", {col}, 0>> :
                        col \in IF schema.allowed_columns = {} THEN {}
                                ELSE columns \ schema.allowed_columns }
               \cup UNION { InRow(i) : i \in 1..Len(rows) }
    IN UNION { Of(t) : t \in { u \in 1..Len(tables) :
                                 NormalizeTag(tables[u].table.tag) \in DOMAIN schemas } }

\* C3: with validation on, a TableIR is returned only if it breaks no
\* table-shape rule; a TableIR that breaks one is never returned: the call
\* raises TableValidationError, which carries every error that the
\* validation of that TableIR reported, one for each broken rule.
C3_ReturnedOnlyIfShapeValid ==
    validate =>
        /\ returned # None => ShapeViolations(returned[1], config) = {}
        /\ (tableir # None /\ pc \in {"returned", "raised"}
               /\ ShapeViolations(tableir[1], config) # {}) =>
               /\ RaisedWith("TableValidationError")
               /\ returned = None
               /\ raised[1].errors \in ValidateTableIR(tableir[1], config)
               /\ Len(raised[1].errors) = Cardinality(ShapeViolations(tableir[1], config))
        /\ RaisedWith("TableValidationError") =>
               tableir # None /\ ShapeViolations(tableir[1], config) # {}

C3_Witness ==
    /\ validate
    /\ RaisedWith("TableValidationError")
    /\ Len(raised[1].errors) >= 2
    /\ returned = None

\* C8: compiling the same source twice, under the same hash seed or another
\* one, yields the same TableIR: the same files, sheets, tables and rows in
\* the same order with the same columns and values.
C8_Deterministic ==
    again # None => again = returned /\ again = tableir

\* Two runs over a model whose trade links leave from two origins
C8_Witness ==
    /\ again # None
    /\ Len(TableRows(again[1], "~TRADELINKS")) >= 2
    /\ Len(TableRows(again[1], "~FI_T")) >= 1

\* C9: the source is never changed, whether the call returns or raises: every
\* process, flow, bound spec, scenario, constraint and trade link equals what
\* it was before the call.
C9_SourceUnchanged ==
    source = original

\* A returned run and a raised run over a process written in shorthand
C9_Witness ==
    /\ pc \in {"returned", "raised"}
    /\ xref # None
    /\ \E i \in 1..Len(original.model.processes) :
           /\ "input" \in DOMAIN original.model.processes[i]
           /\ "activity_bound" \in DOMAIN original.model.processes[i]

\* The representative years of the periods of a model
ModelYearsOf(model) ==
    GetModelYears(Get(model, "start_year", StartYear), model.time_periods)

\* The scenario-table rows that a commodity_price scenario is said to yield
DenseScenarioRows(ir, model, scenario) ==
    LET dense == ExpandSeriesToYears(scenario.values, ModelYearsOf(model),
                                     scenario.interpolation)
        rows == SelectSeq(TableRows(ir, "~TFM_DINS-AT"),
                          LAMBDA row : "com_cstnet" \in DOMAIN row)
    IN /\ Len(rows) = Cardinality(DOMAIN dense)
       /\ \A i \in 1..Len(rows) :
              /\ rows[i]["year"] \in DOMAIN dense
              /\ Num(rows[i]["com_cstnet"]) = dense[rows[i]["year"]]
       /\ \A year \in DOMAIN dense : \E i \in 1..Len(rows) : rows[i]["year"] = year

\* C6: the table of a commodity_price scenario has exactly one row for each
\* model year to which the dense expansion of its values assigns a value under
\* its interpolation mode, carrying that value, and no row for another year.
C6_PriceScenarioDense ==
    tableir # None =>
        \A i \in 1..Len(original.model.scenarios) :
            original.model.scenarios[i].type = "commodity_price" =>
                DenseScenarioRows(tableir[1], original.model,
                                  original.model.scenarios[i])

TIME_VARYING_ATTRS ==
    {"efficiency", "invcost", "fixom", "varom", "life", "availability_factor",
     "cost"}

\* The rows that a time-varying attribute of a process is said to yield
SparseAttributeRows(ir, process, attr) ==
    LET column == ATTR_TO_COLUMN[attr]
        mode == Get(process[attr], "interpolation", "interp_extrap")
        code == [interp_only |-> 1, interp_extrap_eps |-> 2, interp_extrap |-> 3,
                 interp_extrap_back |-> 4, interp_extrap_forward |-> 5]
        rows == SelectSeq(TableRows(ir, "~FI_T"),
                    LAMBDA row : /\ {"process", "year", column} \subseteq DOMAIN row
                                 /\ row["process"] = process.name)
        data == SelectSeq(rows, LAMBDA row : row["year"] # 0)
        marker == SelectSeq(rows, LAMBDA row : row["year"] = 0)
        declared == DOMAIN process[attr].values
    IN /\ Len(data) = Cardinality(declared)
       /\ \A key \in declared :
              \E i \in 1..Len(data) :
                  /\ data[i]["year"] = StrToInt(key)
                  /\ data[i][column] = process[attr].values[key]
       /\ IF mode = "none" THEN marker = <<>>
          ELSE Len(marker) = 1 /\ marker[1][column] = code[mode]

\* C7: a time-varying process attribute with n declared years yields exactly
\* n data rows, one per declared year, each carrying the declared value in the
\* attribute's column, plus exactly one row at year 0 carrying the code of the
\* mode when the mode is not none, and no year-0 row when it is none.
C7_TimeVaryingAttrRows ==
    tableir # None =>
        \A i \in 1..Len(original.model.processes) :
            \A attr \in TIME_VARYING_ATTRS \cap DOMAIN original.model.processes[i] :
                IsTimeVarying(original.model.processes[i][attr]) =>
                    SparseAttributeRows(tableir[1], original.model.processes[i], attr)

\* The rows of the tables of one file that carry the tag
FileRows(file, tag) ==
    Concat([sh \in 1..Len(file.sheets) |->
        Concat([t \in 1..Len(file.sheets[sh].tables) |->
            IF file.sheets[sh].tables[t].tag = tag
            THEN file.sheets[sh].tables[t].rows ELSE <<>>])])

FileTags(file) ==
    UNION { { file.sheets[sh].tables[t].tag : t \in 1..Len(file.sheets[sh].tables) } :
              sh \in 1..Len(file.sheets) }

UnderTrades(file) == file.path[1] = "SuppXLS/Trades/"

\* The rows of the ~FI_T table of the VT_ process file
MainTopology(ir) ==
    Concat([f \in 1..Len(ir.files) |->
        IF ir.files[f].path[1] = "VT_" THEN FileRows(ir.files[f], "~FI_T") ELSE <<>>])

\* The eff rows of a trade process in a list of rows
TradeEffRows(rows, name) ==
    SelectSeq(rows, LAMBDA row : /\ {"process", "eff"} \subseteq DOMAIN row
                                 /\ row["process"] = name)

\* C11: in every compiled TableIR the file under SuppXLS/Trades/ holds only
\* ~TRADELINKS tables; each trade link that gives an efficiency e has a row
\* {region=origin, process=its trade process, commodity-out=commodity, eff=e}
\* in the ~FI_T table of the main VT_ file, and a trade process has as many
\* eff rows as links that give one: a link without efficiency yields none.
C11_TradeEfficiencyRouting ==
    tableir # None =>
        LET ir == tableir[1]
            links == original.model.trade_links
            main == MainTopology(ir)
        IN /\ \A f \in 1..Len(ir.files) :
                  UnderTrades(ir.files[f]) => FileTags(ir.files[f]) \subseteq {"~TRADELINKS"}
           /\ \A i \in 1..Len(links) :
                  LET name == ExpectedTradeName(links[i])
                      given == { j \in 1..Len(links) :
                                   /\ ExpectedTradeName(links[j]) = name
                                   /\ "efficiency" \in DOMAIN links[j] }
                  IN /\ Len(TradeEffRows(main, name)) = Cardinality(given)
                     /\ Len(TradeEffRows(TableRows(ir, "~FI_T"), name)) = Cardinality(given)
                     /\ "efficiency" \in DOMAIN links[i] =>
                            \E r \in 1..Len(main) :
                                main[r] = ("region" :> links[i].origin)
                                            @@ ("process" :> name)
                                            @@ ("commodity-out" :> links[i].commodity)
                                            @@ ("eff" :> links[i].efficiency)

\* A returned TableIR of a model with a link that gives an efficiency and one
\* that gives none
C11_Witness ==
    /\ returned # None
    /\ validate
    /\ \E i, j \in 1..Len(original.model.trade_links) :
           /\ "efficiency" \in DOMAIN original.model.trade_links[i]
           /\ "efficiency" \notin DOMAIN original.model.trade_links[j]
           /\ ExpectedTradeName(original.model.trade_links[i])
                  # ExpectedTradeName(original.model.trade_links[j])
    /\ \E f \in 1..Len(returned[1].files) : UnderTrades(returned[1].files[f])

\* The group of a link as the specification defines it
LinkGroup(link) == <<link.commodity, Get(link, "bidirectional", TRUE)>>

\* The sheets of the trade file of one call (none when there is no file)
TradeSheets ==
    IF trade_result.files = <<>> THEN <<>> ELSE trade_result.files[1].sheets

\* One group of links has its sheet, and the sheet its matrix
GroupAsClaimed(group) ==
    LET sheet_name == (IF group[2] THEN Lit("Bi") ELSE Lit("Uni"))
                          \o <<"_">> \o group[1]
        named == { s \in 1..Len(TradeSheets) : TradeSheets[s].name = sheet_name }
        members == { i \in 1..Len(trade_links) : LinkGroup(trade_links[i]) = group }
        origins == { trade_links[i].origin : i \in members }
        sheet == TradeSheets[CHOOSE s \in named : TRUE]
        rows == sheet.tables[1].rows
        RowOf(origin, r) ==
            \A i \in members :
                trade_links[i].origin = origin =>
                    /\ trade_links[i].destination \in DOMAIN rows[r]
                    /\ rows[r][trade_links[i].destination]
                           = ExpectedTradeName(trade_links[i])
    IN /\ Cardinality(named) = 1
       /\ Len(sheet.tables) = 1
       /\ sheet.tables[1].tag = "~TRADELINKS"
       /\ Len(rows) = Cardinality(origins)
       /\ \A origin \in origins :
              Cardinality({ r \in 1..Len(rows) : RowOf(origin, r) }) = 1
       /\ \A r \in 1..Len(rows) :
              \A column \in DOMAIN rows[r] \ {group[1]} :
                  \E i \in members :
                      /\ trade_links[i].destination = column
                      /\ rows[r][column] = ExpectedTradeName(trade_links[i])

\* C12: trade links are grouped by (commodity, bidirectional); each group
\* yields exactly one sheet, named Bi_{commodity} or Uni_{commodity}, with one
\* ~TRADELINKS table that has exactly one row per origin region with an
\* outgoing link in the group, and in that row the cell under each
\* destination region is the generated process name of the link from that
\* origin to that destination, never a numeric or boolean marker.
C12_TradeMatrix ==
    tpc = "done" =>
        LET groups == { LinkGroup(trade_links[i]) : i \in 1..Len(trade_links) }
        IN /\ Len(trade_result.files) = IF trade_links = <<>> THEN 0 ELSE 1
           /\ Len(TradeSheets) = Cardinality(groups)
           /\ \A group \in groups : GroupAsClaimed(group)

\* A matrix row with two destination cells
C12_Witness ==
    /\ tpc = "done"
    /\ Len(trade_links) = 2
    /\ Len(TradeSheets) = 1
    /\ Len(TradeSheets[1].tables[1].rows) = 1
    /\ Cardinality(DOMAIN TradeSheets[1].tables[1].rows[1]) = 3

\* The value of an RHS row, under either of the two RHS columns
RhsValue(row) == IF "uc_rhs" \in DOMAIN row THEN row["uc_rhs"] ELSE row["uc_rhsrt"]

IsRhsRow(row) ==
    /\ "limtype" \in DOMAIN row
    /\ {"uc_rhs", "uc_rhsrt"} \cap DOMAIN row # {}
    /\ "side" \in DOMAIN row => row["side"] = "RHS"

IsLhsRow(row, column) ==
    /\ {"side", column} \subseteq DOMAIN row
    /\ row["side"] = "LHS"

\* The ~UC_T rows of one constraint name, and those of one year
ConstraintRows(ir, name) ==
    SelectSeq(TableRows(ir, "~UC_T"), LAMBDA row : row["uc_n"] = name)

RowsOfYear(rows, year) == SelectSeq(rows, LAMBDA row : row["year"] = year)

\* The rows of one share constraint as the specification gives them: in every
\* model year one uc_act = 1 row per target process, one uc_comprd = -share
\* row for the commodity and one RHS row of value 0, and nothing else
ShareRowsAsClaimed(rows, targets, commodity, share, limtype, years) ==
    /\ \A i \in 1..Len(rows) : rows[i]["year"] \in Range(years)
    /\ \A y \in Range(years) :
           LET mine == RowsOfYear(rows, y)
           IN /\ Len(mine) = Len(targets) + 2
              /\ \A p \in Range(targets) :
                     Len(SelectSeq(mine, LAMBDA row :
                             /\ IsLhsRow(row, "uc_act")
                             /\ "process" \in DOMAIN row
                             /\ row["process"] = p
                             /\ row["uc_act"] = 1))
                         = Cardinality({ i \in 1..Len(targets) : targets[i] = p })
              /\ Len(SelectSeq(mine, LAMBDA row :
                         /\ IsLhsRow(row, "uc_comprd")
                         /\ "commodity" \in DOMAIN row
                         /\ row["commodity"] = commodity
                         /\ row["uc_comprd"] = 0 - share)) = 1
              /\ Len(SelectSeq(mine, LAMBDA row :
                         /\ IsRhsRow(row)
                         /\ RhsValue(row) = Num(0)
                         /\ row["limtype"] = limtype)) = 1

GivesMin(constraint) == "minimum_share" \in DOMAIN constraint
GivesMax(constraint) == "maximum_share" \in DOMAIN constraint

ShareConstraints(model) ==
    { i \in 1..Len(model.constraints) :
          /\ model.constraints[i].type = "activity_share"
          /\ model.constraints[i].processes # <<>> }

C14_ShareBandNames ==
    tableir # None =>
        \A i \in ShareConstraints(original.model) :
            LET c == original.model.constraints[i]
                ir == tableir[1]
                years == ModelYearsOf(original.model)
                lo == c.name \o <<"_", "L", "O">>
                up == c.name \o <<"_", "U", "P">>
                per_year == Len(c.processes) + 2
            IN IF GivesMin(c) /\ GivesMax(c)
               THEN /\ ConstraintRows(ir, c.name) = <<>>
                    /\ ShareRowsAsClaimed(ConstraintRows(ir, lo), c.processes,
                                          c.commodity, c.minimum_share,
                                          <<"L", "O">>, years)
                    /\ ShareRowsAsClaimed(ConstraintRows(ir, up), c.processes,
                                          c.commodity, c.maximum_share,
                                          <<"U", "P">>, years)
                    /\ Len(ConstraintRows(ir, lo)) = per_year * Len(years)
                    /\ Len(ConstraintRows(ir, up)) = per_year * Len(years)
               ELSE /\ ConstraintRows(ir, lo) = <<>>
                    /\ ConstraintRows(ir, up) = <<>>
                    /\ (GivesMin(c) \/ GivesMax(c)) =>
                           Len(ConstraintRows(ir, c.name)) = per_year * Len(years)

\* A returned TableIR with a constraint that gives both shares and one that
\* gives a single share
C14_Witness ==
    /\ returned # None
    /\ validate
    /\ \E i, j \in ShareConstraints(original.model) :
           /\ GivesMin(original.model.constraints[i])
           /\ GivesMax(original.model.constraints[i])
           /\ original.model.constraints[i].minimum_share
                  # original.model.constraints[i].maximum_share
           /\ GivesMin(original.model.constraints[j])
           /\ ~GivesMax(original.model.constraints[j])

\* The limit type an emission_cap asks for
RequestedLimtype(constraint) ==
    LET given == Get(constraint, "limtype", <<"u", "p">>)
    IN CASE given = <<"l", "o">> -> <<"L", "O">>
         [] given = <<"f", "x">> -> <<"F", "X">>
         [] OTHER -> <<"U", "P">>

\* The limit of each model year that has one: the single limit in every model
\* year, or the dense expansion of the years trajectory under the mode
YearLimits(constraint, years) ==
    IF "years" \in DOMAIN constraint
    THEN ExpandSeriesToYears(constraint.years, years,
                             Get(constraint, "interpolation", "interp_extrap"))
    ELSE IF "limit" \in DOMAIN constraint
    THEN [y \in Range(years) |-> Num(constraint.limit)]
    ELSE EmptyDict

\* In the year: one LHS row with uc_comprd = 1 on the commodity and one RHS
\* row with the limit and the limit type, and nothing else
CapRowsOfYear(rows, year, commodity, limit, limtype) ==
    LET mine == RowsOfYear(rows, year)
    IN /\ Len(mine) = 2
       /\ Len(SelectSeq(mine, LAMBDA row :
                  /\ IsLhsRow(row, "uc_comprd")
                  /\ "commodity" \in DOMAIN row
                  /\ row["commodity"] = commodity
                  /\ row["uc_comprd"] = 1)) = 1
       /\ Len(SelectSeq(mine, LAMBDA row :
                  /\ IsRhsRow(row)
                  /\ RhsValue(row) = limit
                  /\ row["limtype"] = limtype)) = 1

EmissionCaps(model) ==
    { i \in 1..Len(model.constraints) : model.constraints[i].type = "emission_cap" }

\* C15 as stated: for an emission_cap with a limit or a years trajectory,
\* every model year has exactly one LHS row with uc_comprd = 1 on the
\* commodity and exactly one RHS row with that year's limit and the requested
\* limit type.
C15_EveryModelYear ==
    tableir # None =>
        \A i \in EmissionCaps(original.model) :
            LET c == original.model.constraints[i]
                years == ModelYearsOf(original.model)
                limits == YearLimits(c, years)
            IN ({"limit", "years"} \cap DOMAIN c # {}) =>
                   \A y \in Range(years) :
                       /\ y \in DOMAIN limits
                       /\ CapRowsOfYear(ConstraintRows(tableir[1], c.name), y,
                                        c.commodity, limits[y], RequestedLimtype(c))

\* C15, amended: every model year that has a limit (each of them for a single
\* limit; for a years trajectory those to which the dense expansion assigns a
\* value under the mode of the constraint) has exactly one LHS row with
\* uc_comprd = 1 on the commodity and exactly one RHS row with that limit and
\* the requested limit type; a model year without a limit has no row.
C15_YearsWithLimit ==
    tableir # None =>
        \A i \in EmissionCaps(original.model) :
            LET c == original.model.constraints[i]
                years == ModelYearsOf(original.model)
                limits == YearLimits(c, years)
                rows == ConstraintRows(tableir[1], c.name)
            IN /\ \A y \in DOMAIN limits :
                      CapRowsOfYear(rows, y, c.commodity, limits[y],
                                    RequestedLimtype(c))
               /\ \A r \in 1..Len(rows) : rows[r]["year"] \in DOMAIN limits
               /\ DOMAIN limits \subseteq Range(years)

\* A returned TableIR with a cap whose trajectory leaves a model year without
\* a limit, and a cap with an interpolated limit
C15_Witness ==
    /\ returned # None
    /\ validate
    /\ \E i, j \in EmissionCaps(original.model) :
           LET years == ModelYearsOf(original.model)
               some == YearLimits(original.model.constraints[i], years)
               all == YearLimits(original.model.constraints[j], years)
           IN /\ DOMAIN some # {}
              /\ DOMAIN some # Range(years)
              /\ "years" \in DOMAIN original.model.constraints[j]
              /\ DOMAIN all = Range(years)
              /\ Cardinality(DOMAIN original.model.constraints[j].years) < Len(years)

\* The output commodities a process declares, in either form
DeclaredOutputs(process) ==
    IF "outputs" \in DOMAIN process
    THEN [i \in 1..Len(process.outputs) |-> process.outputs[i].commodity]
    ELSE IF "output" \in DOMAIN process THEN <<process["output"]>>
    ELSE <<>>

\* The ~FI_T rows of a process that have the column
ProcessRowsWith(ir, process, column) ==
    SelectSeq(TableRows(ir, "~FI_T"),
              LAMBDA row : /\ {"process", column} \subseteq DOMAIN row
                           /\ row["process"] = process.name)

HasScalarEfficiency(process) ==
    "efficiency" \in DOMAIN process /\ ~IsTimeVarying(process.efficiency)

\* A scalar attribute is in exactly one row of the process: the efficiency row
\* when there is a scalar efficiency, else the first output-flow row
ScalarInItsRow(ir, process, attr) ==
    LET rows == ProcessRowsWith(ir, process, ATTR_TO_COLUMN[attr])
        outs == DeclaredOutputs(process)
    IN /\ Len(rows) = 1
       /\ rows[1][ATTR_TO_COLUMN[attr]] = process[attr].scalar
       /\ IF HasScalarEfficiency(process)
          THEN /\ "eff" \in DOMAIN rows[1]
               /\ rows[1]["eff"] = process.efficiency.scalar
          ELSE /\ outs # <<>>
               /\ "eff" \notin DOMAIN rows[1]
               /\ "commodity-out" \in DOMAIN rows[1]
               /\ rows[1]["commodity-out"] = outs[1]

ScalarAttributes(process) ==
    { attr \in {"invcost", "fixom", "varom", "life", "cost", "availability_factor"}
                   \cap DOMAIN process : ~IsTimeVarying(process[attr]) }

\* C16: each scalar attribute a process declares among invcost, fixom, varom,
\* life, cost and availability_factor is under its canonical column in
\* exactly one ~FI_T row of the process: the first output-flow row when the
\* process has no scalar efficiency, else the efficiency row; none is dropped
\* or repeated.
C16_ScalarAttributeRow ==
    tableir # None =>
        \A i \in 1..Len(original.model.processes) :
            \A attr \in ScalarAttributes(original.model.processes[i]) :
                ScalarInItsRow(tableir[1], original.model.processes[i], attr)

\* The bound fields of a process and their columns
BoundColumns ==
    [activity_bound |-> "act_bnd", cap_bound |-> "cap_bnd", ncap_bound |-> "ncap_bnd"]

\* The limit type of a limit-kind
LimitKinds == [up |-> <<"U", "P">>, lo |-> <<"L", "O">>, fx |-> <<"F", "X">>]

\* The declared limit-kinds of a process: <<field, kind, value>>
DeclaredBounds(process) ==
    UNION { { <<field, process[field][k][1], process[field][k][2]>> :
                k \in { j \in 1..Len(process[field]) :
                          process[field][j][1] \in DOMAIN LimitKinds } } :
              field \in DOMAIN BoundColumns \cap DOMAIN process }

\* C17: each declared limit-kind (up, lo, fx) of activity_bound, cap_bound and
\* ncap_bound of a process yields exactly one ~FI_T row of the process with
\* limtype UP, LO or FX and the declared value in act_bnd, cap_bnd or
\* ncap_bnd; the rows of the process that carry limtype are as many as the
\* declared limit-kinds, and no row carries two bounds.
C17_BoundRows ==
    tableir # None =>
        \A i \in 1..Len(original.model.processes) :
            LET process == original.model.processes[i]
                limited == ProcessRowsWith(tableir[1], process, "limtype")
                columns == { BoundColumns[field] : field \in DOMAIN BoundColumns }
                BoundsOf(row) == DOMAIN row \cap columns
            IN /\ \A bound \in DeclaredBounds(process) :
                      Len(SelectSeq(limited, LAMBDA row :
                              /\ row["limtype"] = LimitKinds[bound[2]]
                              /\ BoundColumns[bound[1]] \in DOMAIN row
                              /\ row[BoundColumns[bound[1]]] = bound[3])) = 1
               /\ Len(limited) = Cardinality(DeclaredBounds(process))
               /\ \A r \in 1..Len(limited) : Cardinality(BoundsOf(limited[r])) = 1
               /\ \A column \in columns :
                      \A r \in 1..Len(ProcessRowsWith(tableir[1], process, column)) :
                          "limtype" \in DOMAIN ProcessRowsWith(tableir[1], process, column)[r]

\* A returned TableIR of a process with a scalar efficiency and two bounds:
\* the first bound is merged into the efficiency row
C17_Witness ==
    /\ returned # None
    /\ validate
    /\ \E i \in 1..Len(original.model.processes) :
           /\ HasScalarEfficiency(original.model.processes[i])
           /\ Cardinality(DeclaredBounds(original.model.processes[i])) = 2
           /\ \E r \in 1..Len(TableRows(returned[1], "~FI_T")) :
                  {"eff", "limtype"} \subseteq DOMAIN TableRows(returned[1], "~FI_T")[r]

HasValidPcg(row) == "primarycg" \in DOMAIN row /\ row["primarycg"] \in ValidPcgs

\* C18: every ~FI_PROCESS row of every compiled TableIR, of a model with or
\* without trade links, carries primarycg equal to one of the ten valid
\* codes.
C18_PrimaryCgEverywhere ==
    (validate /\ returned # None) =>
        \A r \in 1..Len(TableRows(returned[1], "~FI_PROCESS")) :
            HasValidPcg(TableRows(returned[1], "~FI_PROCESS")[r])

\* Without trade links the rows do carry a valid code
C18_WithoutTradeLinks ==
    (validate /\ returned # None /\ original.model.trade_links = <<>>) =>
        \A r \in 1..Len(TableRows(returned[1], "~FI_PROCESS")) :
            HasValidPcg(TableRows(returned[1], "~FI_PROCESS")[r])

\* Some process of the model lacks primary_commodity_group or gives a value
\* outside the ten codes
BadPcg(document) ==
    /\ "model" \in DOMAIN document
    /\ \E i \in 1..Len(document.model.processes) :
           \/ "primary_commodity_group" \notin DOMAIN document.model.processes[i]
           \/ document.model.processes[i]["primary_commodity_group"] \notin ValidPcgs

\* The run has failed with a validation error, or has not yet raised, and no
\* TableIR was built or returned
FailsInValidation ==
    /\ pc \in {"start", "raised"}
    /\ pc = "raised" => RaisedWith("ValidationError")
    /\ tableir = None
    /\ returned = None

C19_WitnessInvalidValue ==
    /\ validate
    /\ "model" \in DOMAIN original
    /\ RaisedWith("ValidationError")
    /\ Len(original.model.processes) = 1
    /\ Get(original.model.processes[1], "primary_commodity_group", <<>>) = Lit("INVALID")

\* The process with input: X written as inputs: [{commodity: X}] and
\* output: X written as outputs: [{commodity: X}]
ArrayForm(process) ==
    LET ins == IF "input" \in DOMAIN process
               THEN [inputs |-> << [commodity |-> process["input"]] >>]
               ELSE <<>>
        outs == IF "output" \in DOMAIN process
                THEN [outputs |-> << [commodity |-> process["output"]] >>]
                ELSE <<>>
    IN ins @@ outs @@ Without(Without(process, "input"), "output")

\* The process gives each of its flows in one form only
OneFormOnly(process) ==
    /\ ~ {"input", "inputs"} \subseteq DOMAIN process
    /\ ~ {"output", "outputs"} \subseteq DOMAIN process

ArrayModel(model) ==
    [model EXCEPT !.processes = [i \in 1..Len(model.processes) |->
                                     ArrayForm(model.processes[i])]]

UsesShorthand(document) ==
    /\ "model" \in DOMAIN document
    /\ \A i \in 1..Len(document.model.processes) :
           OneFormOnly(document.model.processes[i])
    /\ ArrayModel(document.model) # document.model

\* C20: writing a process's single input as input: X instead of
\* inputs: [{commodity: X}], and likewise output instead of outputs, changes
\* nothing: the cross-reference check gives the same errors and warnings for
\* both forms (an undeclared X included), and both forms compile to the same
\* TableIR.
C20_ShorthandEquivalence ==
    UsesShorthand(original) =>
        /\ xref # None =>
               ValidateCrossReferences(ArrayModel(original.model)) = xref[1]
        /\ tableir # None =>
               \A seed \in Seeds :
                   LowerModel(ArrayModel(original.model), seed).tableir = tableir[1]

\* A TableIR was returned for a process written with input: and output:
C20_Witness ==
    /\ UsesShorthand(original)
    /\ returned # None
    /\ \E i \in 1..Len(original.model.processes) :
           {"input", "output"} \subseteq DOMAIN original.model.processes[i]
    /\ Len(TableRows(returned[1], "~FI_T")) >= 2

\* The shorthand named an undeclared commodity and the run was rejected
C20_WitnessUnknownCommodity ==
    /\ UsesShorthand(original)
    /\ RaisedWith("SemanticValidationError")
    /\ \E i \in 1..Len(original.model.processes) :
           /\ "input" \in DOMAIN original.model.processes[i]
           /\ original.model.processes[i]["input"] = CommX

\* The default unit of each commodity type
TypeDefaultUnit ==
    [energy |-> Lit("PJ"), demand |-> Lit("PJ"), emission |-> Lit("Mt"),
     material |-> Lit("Mt")]

\* The unit the commodity should be emitted with; a commodity without a type
\* is an energy commodity, and an empty unit declares none
ExpectedUnit(commodity) ==
    IF "unit" \in DOMAIN commodity /\ commodity["unit"] # Lit("")
    THEN commodity["unit"]
    ELSE TypeDefaultUnit[Get(commodity, "type", "energy")]

\* C21: every ~FI_COMM row carries the commodity's explicit unit when one is
\* declared, and otherwise the default of its type: PJ for energy and demand,
\* Mt for emission and material; the table has one row per commodity, in the
\* order of declaration.
C21_CommodityUnits ==
    tableir # None =>
        LET rows == TableRows(tableir[1], "~FI_COMM")
            comms == original.model.commodities
        IN /\ Len(rows) = Len(comms)
           /\ \A i \in 1..Len(rows) :
                  /\ rows[i]["commodity"] = comms[i].name
                  /\ rows[i]["unit"] = ExpectedUnit(comms[i])

\* A returned TableIR of an emission commodity without a unit (Mt) and a
\* material commodity with the declared unit kt
C21_Witness ==
    /\ returned # None
    /\ validate
    /\ Len(original.model.commodities) = 2
    /\ original.model.commodities[1] = [name |-> CommE, type |-> "emission"]
    /\ original.model.commodities[2] =
           [name |-> CommD, type |-> "material", unit |-> Lit("kt")]
    /\ TableRows(returned[1], "~FI_COMM")[1]["unit"] = Lit("Mt")
    /\ TableRows(returned[1], "~FI_COMM")[2]["unit"] = Lit("kt")

\* The codes of a level of the model's timeslices; an undeclared level has none
LevelCodes(model, level) ==
    LET declared == Get(Get(model, "timeslices", <<>>), level, <<>>)
    IN [i \in 1..Len(declared) |-> declared[i].code]

\* The code at a position of a level, the empty string for a level without codes
CodeAt(codes, position) == IF codes = <<>> THEN <<>> ELSE codes[position + 1]

AtLeastOne(n) == IF n = 0 THEN 1 ELSE n

C22_WitnessThreeLevels ==
    /\ returned # None
    /\ Len(LevelCodes(original.model, "season")) = 2
    /\ Len(LevelCodes(original.model, "weekly")) = 2
    /\ Len(LevelCodes(original.model, "daynite")) = 2
    /\ Len(TableRows(returned[1], "~TIMESLICES")) = 12

\* The tables of the checked TableIR whose tag has a schema with allowed columns
SchemaTables ==
    LET schemas == GetAllSchemas(vschemas[1])
    IN SelectSeq(TablesOf(vtableir[1]), LAMBDA t :
           /\ NormalizeTag(t.table.tag) \in DOMAIN schemas
           /\ schemas[NormalizeTag(t.table.tag)].allowed_columns # {})

ColumnsOf(table) == UNION { DOMAIN table.rows[i] : i \in 1..Len(table.rows) }

\* The column is not an allowed column of the table but a known alias
IsAliasColumn(t, col) ==
    /\ col \in ColumnsOf(t.table)
    /\ col \notin GetAllSchemas(vschemas[1])[NormalizeTag(t.table.tag)].allowed_columns
    /\ col \in DOMAIN vschemas[1].aliases

\* The returned errors of one place, tag and kind about one column
ColumnErrors(place, tag, kind, col) ==
    SelectSeq(verrors[1], LAMBDA e :
        /\ e.place = place
        /\ e.error.tag = tag
        /\ e.error.kind = kind
        /\ col \in e.error.columns)

\* C23: table-shape validation never accepts an alias column: for any table
\* whose tag has a schema with allowed columns, a column that is not an
\* allowed column but a known alias of a canonical one yields an error that
\* names the alias and its canonical replacement, one error per alias column
\* of the table, and is never reported as an unknown column.
C23_AliasRejected ==
    vpc = "done" =>
        \A n \in 1..Len(SchemaTables) :
            LET t == SchemaTables[n]
                same == SelectSeq(SchemaTables, LAMBDA u :
                            u.place = t.place /\ u.table.tag = t.table.tag)
            IN \A col \in DOMAIN vschemas[1].aliases :
                   LET reported == ColumnErrors(t.place, t.table.tag,
                                                "is an alias column", col)
                   IN /\ Len(reported) =
                             Len(SelectSeq(same, LAMBDA u : IsAliasColumn(u, col)))
                      /\ \A k \in 1..Len(reported) :
                             reported[k].error.columns =
                                 {col, vschemas[1].aliases[col]}
                      /\ IsAliasColumn(t, col) =>
                             /\ verrors[1] # <<>>
                             /\ ColumnErrors(t.place, t.table.tag,
                                             "unknown column", col) = <<>>

\* A ~FI_T table with the alias columns demand and invcost was checked and
\* both errors were returned
C23_Witness ==
    /\ vpc = "done"
    /\ \E n \in 1..Len(SchemaTables) :
           /\ IsAliasColumn(SchemaTables[n], "demand")
           /\ IsAliasColumn(SchemaTables[n], "invcost")
    /\ \E e \in Range(verrors[1]) : e.error.columns = {"demand", "com_proj"}
    /\ \E e \in Range(verrors[1]) : e.error.columns = {"invcost", "ncap_cost"}

\* The error is the report of the broken rule
Reports(e, violation, tables) ==
    /\ e.place = tables[violation[1]].place
    /\ e.error.tag = tables[violation[1]].table.tag
    /\ e.error.row = violation[4]
    /\ violation[3] \subseteq e.error.columns
    /\ e.error.kind \in
           CASE violation[2] = "required" -> {"missing required column"}
             [] violation[2] = "any of" -> {"must have at least one of"}
             [] violation[2] = "valid value" -> {"invalid value"}
             [] violation[2] = "exclusive" -> {"mutually exclusive fields present"}
             [] violation[2] = "value column" -> {"'value' column not allowed"}
             [] violation[2] = "forbidden" -> {"forbidden column"}
             [] violation[2] = "allowed" -> {"is an alias column", "unknown column"}

\* C24: validate_tableir checks every row of every table of every file and
\* returns all violations in one list: every broken rule of every row, table
\* and file has its error in the list, whatever came before it, the list has
\* as many errors as there are broken rules, and each missing required
\* column of each row is an error of its own.
C24_AllViolationsInOneList ==
    vpc = "done" =>
        LET broken == ShapeViolations(vtableir[1], vschemas[1])
            tables == TablesOf(vtableir[1])
        IN /\ Len(verrors[1]) = Cardinality(broken)
           /\ \A violation \in broken :
                  \E k \in 1..Len(verrors[1]) :
                      Reports(verrors[1][k], violation, tables)
           /\ \A violation \in { v \in broken : v[2] = "required" } :
                  \E k \in 1..Len(verrors[1]) :
                      /\ Reports(verrors[1][k], violation, tables)
                      /\ verrors[1][k].error.columns = violation[3]

\* Two files were checked: the first has a ~FI_COMM table whose second row
\* lacks both required columns, the second a table with an alias column, and
\* the list holds the errors of both
C24_Witness ==
    /\ vpc = "done"
    /\ Len(vtableir[1].files) = 2
    /\ \E e \in Range(verrors[1]) :
           /\ e.place[1] = Lit("a.xlsx")
           /\ e.error.kind = "missing required column"
           /\ e.error.row = 2
           /\ e.error.columns = {"commodity"}
    /\ \E e \in Range(verrors[1]) :
           /\ e.place[1] = Lit("a.xlsx")
           /\ e.error.kind = "missing required column"
           /\ e.error.row = 2
           /\ e.error.columns = {"csets"}
    /\ \E e \in Range(verrors[1]) :
           e.place[1] = Lit("b.xlsx") /\ e.error.kind = "is an alias column"

\* The units of the process that are given and not recognised
UnusualUnits(process) ==
    { key \in {"activity_unit", "capacity_unit"} \cap DOMAIN process :
        /\ process[key] \notin {<<>>, Lit("")}
        /\ process[key] \notin (IF key = "activity_unit" THEN ENERGY_UNITS
                                ELSE POWER_UNITS) }

\* The model without the units of its processes
WithoutUnits(model) ==
    [model EXCEPT !.processes =
        [i \in 1..Len(model.processes) |->
            Without(Without(model.processes[i], "activity_unit"), "capacity_unit")]]

\* C25: a process activity_unit outside the recognised energy units, or
\* capacity_unit outside the recognised power units, produces a warning and
\* never an error: the warnings are as many as the unusual units and the
\* errors are those of the model without its units; and a model for which
\* the cross-reference check reports warnings but no errors is lowered to a
\* TableIR, the call raising no cross-reference error and nothing at all
\* unless the table validation of that TableIR reports an error.
C25_UnitWarningsNeverBlock ==
    xref # None =>
        /\ Len(xref[1].warnings) =
               SumOf([i \in 1..Len(original.model.processes) |->
                         Cardinality(UnusualUnits(original.model.processes[i]))])
        /\ xref[1].errors = ValidateCrossReferences(WithoutUnits(original.model)).errors
        /\ (xref[1].errors = <<>> /\ xref[1].warnings # <<>>) =>
               /\ ~RaisedWith("SemanticValidationError")
               /\ pc \in {"lower", "check", "returned", "raised"}
               /\ pc = "raised" =>
                      /\ RaisedWith("TableValidationError")
                      /\ ShapeViolations(tableir[1], config) # {}
               /\ pc = "returned" => returned = tableir /\ returned # None

\* A model with an unusual activity_unit and capacity_unit was checked with two
\* warnings and no error, and its TableIR was returned
C25_Witness ==
    /\ validate
    /\ xref # None
    /\ xref[1].errors = <<>>
    /\ Len(xref[1].warnings) = 2
    /\ returned # None
    /\ TableRows(returned[1], "~FI_PROCESS")[1]["tact"] = Lit("kg")

\* An unusual unit next to an unknown commodity: one warning, one error
C25_WitnessWithError ==
    /\ RaisedWith("SemanticValidationError")
    /\ Len(xref[1].warnings) = 1
    /\ Len(xref[1].errors) = 1

\* The CheckResult counts an error of a severity=error diagnostic
CountedDiagnosticError ==
    \E i \in 1..Len(kresult.error_messages) : kresult.error_messages[i] = "diagnostic"

C26_WitnessSchemaError ==
    /\ kpc = "returned"
    /\ kmode = "vedalang"
    /\ kreturncode = None
    /\ kresult.error_messages = <<"Schema validation">>

\* A successful check
C26_WitnessSuccess == kpc = "returned" /\ kresult.success

\* C27: every RHS row of a compiled user constraint (emission_cap or
\* activity_share) carries its limit value in the column uc_rhs together
\* with limtype, so that the ~UC_T rows that have a uc_rhs column are exactly
\* one row per constraint name and year of the table.
C27_RhsInUcRhs ==
    tableir # None =>
        LET rows == TableRows(tableir[1], "~UC_T")
            selected == SelectSeq(rows, LAMBDA row : "uc_rhs" \in DOMAIN row)
        IN /\ \A i \in 1..Len(rows) :
                  "limtype" \in DOMAIN rows[i] => "uc_rhs" \in DOMAIN rows[i]
           /\ \A i \in 1..Len(rows) :
                  Len(SelectSeq(selected, LAMBDA row :
                          /\ row["uc_n"] = rows[i]["uc_n"]
                          /\ row["year"] = rows[i]["year"])) = 1

\* What the compiled rows do satisfy: every row with limtype carries uc_rhsrt
\* and no uc_rhs, one such row per constraint name and year of the table
C27_RhsInUcRhsrt ==
    tableir # None =>
        LET rows == TableRows(tableir[1], "~UC_T")
            selected == SelectSeq(rows, LAMBDA row : "uc_rhsrt" \in DOMAIN row)
        IN /\ \A i \in 1..Len(rows) :
                  /\ "uc_rhs" \notin DOMAIN rows[i]
                  /\ "limtype" \in DOMAIN rows[i] <=> "uc_rhsrt" \in DOMAIN rows[i]
           /\ \A i \in 1..Len(rows) :
                  Len(SelectSeq(selected, LAMBDA row :
                          /\ row["uc_n"] = rows[i]["uc_n"]
                          /\ row["year"] = rows[i]["year"])) = 1

\* The columns of ~FI_T that carry an attribute value: the attribute columns
\* of the process attributes, the bound columns and the demand column
AttributeColumns ==
    { ATTR_TO_COLUMN[attr] : attr \in DOMAIN ATTR_TO_COLUMN }
        \cup { BoundColumns[field] : field \in DOMAIN BoundColumns }
        \cup {"com_proj"}

\* A row carries one of commodity-in, commodity-out, eff or another attribute
\* column
HasReference(row) ==
    DOMAIN row \cap ({"commodity-in", "commodity-out"} \cup AttributeColumns) # {}

\* A bound row that is not merged into an efficiency or cost row, and a row
\* of a time-varying attribute
IsStandaloneBoundRow(row) ==
    /\ "limtype" \in DOMAIN row
    /\ DOMAIN row \cap AttributeColumns \subseteq
           { BoundColumns[field] : field \in DOMAIN BoundColumns }

IsTimeVaryingRow(row) == "year" \in DOMAIN row

\* The standalone bound rows and time-varying attribute rows of a process
AnchoredRows(ir, process) ==
    SelectSeq(TableRows(ir, "~FI_T"),
              LAMBDA row : /\ "process" \in DOMAIN row
                           /\ row["process"] = process.name
                           /\ IsStandaloneBoundRow(row) \/ IsTimeVaryingRow(row))

C28_WitnessNoOutput ==
    /\ tableir # None
    /\ \E i \in 1..Len(original.model.processes) :
           LET process == original.model.processes[i]
               rows == AnchoredRows(tableir[1], process)
           IN /\ DeclaredOutputs(process) = <<>>
              /\ \E r \in 1..Len(rows) :
                     IsStandaloneBoundRow(rows[r]) /\ "commodity-out" \notin DOMAIN rows[r]
              /\ \E r \in 1..Len(rows) :
                     IsTimeVaryingRow(rows[r]) /\ "commodity-out" \notin DOMAIN rows[r]

\* The step a run recorded for a stage, if any
StepsNamed(name) == SelectSeq(presult.steps, LAMBDA step : step.name = name)

\* C29: run_pipeline runs its stages only in the order compile, emit_excel,
\* xl2times, run_times and stops at the first stage that fails: the recorded
\* steps are a prefix of that order, the stage about to start is the one after
\* the last recorded step, a failed step is the last one recorded and no
\* stage starts after it, and the overall result is successful exactly when
\* all four stages are recorded and each one succeeded or was skipped.
C29_StagesInOrder ==
    ppc # "idle" =>
        LET steps == presult.steps
        IN /\ Len(steps) <= Len(Stages)
           /\ \A i \in 1..Len(steps) : steps[i].name = Stages[i]
           /\ ppc \in Range(Stages) =>
                  /\ Len(steps) < Len(Stages)
                  /\ ppc = Stages[Len(steps) + 1]
           /\ \A i \in 1..Len(steps) :
                  ~steps[i].success =>
                      /\ i = Len(steps)
                      /\ ppc \in {"finally", "returned"}
           /\ presult.success =>
                  /\ Len(steps) = Len(Stages)
                  /\ \A i \in 1..Len(steps) : steps[i].success \/ steps[i].skipped
           /\ ppc = "returned" =>
                  (presult.success <=>
                      /\ Len(steps) = Len(Stages)
                      /\ \A i \in 1..Len(steps) : steps[i].success \/ steps[i].skipped)

\* A returned run that stopped at a failed emit_excel stage: two steps are
\* recorded and the result is not successful
C29_Witness ==
    /\ ppc = "returned"
    /\ Len(presult.steps) = 2
    /\ presult.steps[1].success
    /\ ~presult.steps[2].success
    /\ ~presult.success

\* A returned successful run of a vedalang input in which no stage was skipped
C29_WitnessAllStages ==
    /\ ppc = "returned"
    /\ pkind = "vedalang"
    /\ presult.success
    /\ Len(presult.steps) = 4
    /\ \A i \in 1..4 : ~presult.steps[i].skipped

\* A returned run whose solver stage failed: four steps, not successful
C29_WitnessSolverFailed ==
    /\ ppc = "returned"
    /\ Len(presult.steps) = 4
    /\ ~presult.steps[4].success
    /\ ~presult.success

\* C30: in run_pipeline a severity=error diagnostic marks the run as failed
\* just as a non-zero exit code does: whenever the xl2times step has recorded
\* at least one error, that step and the overall result are not successful
\* and the solver stage does not run.
C30_ErrorDiagnosticFails ==
    ppc # "idle" =>
        \A i \in 1..Len(presult.steps) :
            (presult.steps[i].name = "xl2times" /\ presult.steps[i].errors # <<>>) =>
                /\ ~presult.steps[i].success
                /\ ~presult.success
                /\ ppc # "run_times"
                /\ StepsNamed("run_times") = <<>>

\* What the code does guarantee: an xl2times step that is not successful (a
\* non-zero exit code or an exception) ends the run without the solver stage
C30_FailedStepStops ==
    ppc # "idle" =>
        \A i \in 1..Len(presult.steps) :
            (presult.steps[i].name = "xl2times" /\ ~presult.steps[i].success) =>
                /\ ~presult.success
                /\ ppc # "run_times"
                /\ StepsNamed("run_times") = <<>>

====
